---- MODULE Spec2Model ----
(***************************************************************************)
(* Risk scoring and spatial statistics engine of the WA environmental      *)
(* platform (src/src/analysis/risk_scoring.py, spatial_stats.py).          *)
(*                                                                         *)
(* Numbers are fixed point:                                                *)
(*   concentrations (measurement values)  in 1/1000   of a unit            *)
(*   unrounded scores                     in 1/10000  of a score point     *)
(*   reported (rounded) scores            in 1/100    of a score point     *)
(*   health weights                       in 1/10                          *)
(* Python dicts are records/functions; "key in d" is "key \in DOMAIN d".   *)
(***************************************************************************)
EXTENDS Integers, Sequences, FiniteSets, Bags, TLC

VARIABLES
    measurements,   \* table environmental_measurements: station -> parameter -> rows
    risk_scores,    \* table environmental_risk_scores: a bag of rows, the
                    \* columns id and created_at left out
    pollution_hotspots, \* table pollution_hotspots, likewise
    spatial_clusters,   \* table spatial_clusters, likewise
    today,          \* datetime.now().date(), as a day number
    running,        \* the frame of a scoring call that has not returned yet
    ret             \* the value handed back by the call that has just returned

vars == <<measurements, risk_scores, pollution_hotspots, spatial_clusters, today, running,
         ret>>

(***************************************************************************)
(* Bounds of the model.                                                    *)
(***************************************************************************)
MaxCells == 2       \* (station, parameter) pairs that hold measurements
MaxRows == 3        \* rows of environmental_risk_scores
MaxArchived == 2    \* rows of pollution_hotspots
MaxFrame == 3       \* stations of a frame handed to calculate_spatial_weights
MaxK == 3           \* k of the knn method
MaxGiStations == 5  \* stations of a frame handed to getis_ord_gi_star
MaxMinSamples == 5  \* min_samples of spatial_clustering_analysis
MaxQuarters == 5    \* concentrations up to this many quarters of a reference
MaxSites == 5       \* rows a query hands to an analysis
MaxClustered == 4   \* rows of spatial_clusters

(***************************************************************************)
(* The station network (monitoring_stations joined to the county           *)
(* boundaries): all of type air_quality and active.                        *)
(***************************************************************************)
Stations == <<"S1", "S2", "S3", "S4">>
StationSet == {Stations[i] : i \in 1..Len(Stations)}
Counties == <<"King", "Pierce">>
CountySet == {Counties[i] : i \in 1..Len(Counties)}
CountyOf == [s \in StationSet |-> IF s \in {"S3", "S4"} THEN "Pierce" ELSE "King"]

\* monitoring_stations.location, in 1/100 of a degree
Longitude ==
    [s \in StationSet |->
        CASE s = "S1" -> -12240
          [] s = "S2" -> -12236
          [] s = "S3" -> -12232
          [] s = "S4" -> -12140]
Latitude == [s \in StationSet |-> 4760]

\* parameters the store holds, in ORDER BY parameter order
Parameters == <<"Lead", "PM2.5 Mass", "SO2">>
ParameterSet == {Parameters[i] : i \in 1..Len(Parameters)}

(***************************************************************************)
(* RiskParameters                                                          *)
(***************************************************************************)
Pollutants == {"PM2.5 Mass", "PM10 Mass", "Ozone", "SO2", "NO2", "CO"}

HEALTH_WEIGHTS ==
    [p \in Pollutants |->
        CASE p = "PM2.5 Mass" -> 10
          [] p = "PM10 Mass" -> 6
          [] p = "Ozone" -> 8
          [] p = "SO2" -> 5
          [] p = "NO2" -> 4
          [] p = "CO" -> 3]

\* one dict entry: key, value, and isinstance(value, (int, float))
Unit == [k |-> "unit", v |-> 0, numeric |-> FALSE]
Ref(period, value) == [k |-> period, v |-> value, numeric |-> TRUE]

\* the entries of each pollutant's dict in insertion order
REFERENCE_CONCENTRATIONS ==
    [p \in Pollutants |->
        CASE p = "PM2.5 Mass" -> <<Unit, Ref("annual", 12), Ref("24hour", 35)>>
          [] p = "PM10 Mass" -> <<Unit, Ref("24hour", 150)>>
          [] p = "Ozone" -> <<Unit, Ref("8hour", 70)>>
          [] p = "SO2" -> <<Unit, Ref("1hour", 75)>>
          [] p = "NO2" -> <<Unit, Ref("1hour", 100), Ref("annual", 53)>>
          [] p = "CO" -> <<Unit, Ref("1hour", 35), Ref("8hour", 9)>>]

\* (level, min_score, max_score) in dict order
RISK_THRESHOLDS ==
    << <<"LOW", 0, 25>>, <<"MODERATE", 25, 50>>, <<"HIGH", 50, 75>>,
       <<"VERY_HIGH", 75, 90>>, <<"HAZARDOUS", 90, 100>> >>

(***************************************************************************)
(* Arithmetic helpers                                                      *)
(***************************************************************************)
Min2(a, b) == IF a < b THEN a ELSE b

\* round(x, 2): 1/10000 -> 1/100, to nearest
Round2(x) == (x + 50) \div 100

RECURSIVE SumSeq(_)
SumSeq(s) == IF s = <<>> THEN 0 ELSE Head(s) + SumSeq(Tail(s))

RECURSIVE Insert(_, _)
Insert(x, s) ==
    IF s = <<>> THEN <<x>>
    ELSE IF x <= Head(s) THEN <<x>> \o s
    ELSE <<Head(s)>> \o Insert(x, Tail(s))

RECURSIVE SortAsc(_)
SortAsc(s) == IF s = <<>> THEN <<>> ELSE Insert(Head(s), SortAsc(Tail(s)))

\* np.mean, then round(_, 3)
MeanRound3(values) ==
    (2 * SumSeq(values) + Len(values)) \div (2 * Len(values))

\* np.max
MaxOf(values) == SortAsc(values)[Len(values)]

\* np.percentile(values, 95), linear interpolation between order statistics:
\* virtual index 0.95 * (n - 1), counted here in twentieths
Percentile95(values) ==
    LET sorted == SortAsc(values)
        pos == 19 * (Len(values) - 1)
        lo == pos \div 20
        fr == pos % 20
    IN  IF fr = 0 THEN sorted[lo + 1]
        ELSE sorted[lo + 1] + ((sorted[lo + 2] - sorted[lo + 1]) * fr) \div 20

\* exp(-f) for 0 <= f < 1, both in 1/10000: the power series, summed pairwise
\* so that every partial sum stays positive
RECURSIVE ExpSeries(_, _, _)
ExpSeries(f, term, k) ==
    IF k > 12 \/ term = 0 THEN 0
    ELSE LET t1 == (term * f) \div (k * 10000)
             t2 == (t1 * f) \div ((k + 1) * 10000)
         IN  (term - t1) + ExpSeries(f, t2, k + 2)

\* exp(-t), t >= 0, both in 1/10000: exp(-1)^floor(t) * exp(-frac(t))
RECURSIVE ExpNeg(_)
ExpNeg(t) ==
    IF t >= 120000 THEN 0
    ELSE IF t >= 10000 THEN (ExpNeg(t - 10000) * 3679) \div 10000
    ELSE ExpSeries(t, 10000, 1)

(***************************************************************************)
(* EnvironmentalRiskScoring.calculate_pollutant_risk_score                 *)
(***************************************************************************)
\* position of key in a dict's entries, 0 when absent
KeyIndex(entries, key) ==
    IF \E i \in 1..Len(entries) : entries[i].k = key
    THEN CHOOSE i \in 1..Len(entries) : entries[i].k = key
    ELSE 0

\* [v for k, v in ref_data.items() if k != 'unit' and isinstance(v, (int, float))]
RefValues(entries) ==
    SelectSeq(entries, LAMBDA e : e.k # "unit" /\ e.numeric)

\* the resolution without the 'annual' rule
ReferenceConcFirstListed(pollutant, averaging_period) ==
    LET ref_data == REFERENCE_CONCENTRATIONS[pollutant]
    IN  IF KeyIndex(ref_data, averaging_period) # 0
        THEN ref_data[KeyIndex(ref_data, averaging_period)].v
        ELSE IF RefValues(ref_data) # <<>>
        THEN RefValues(ref_data)[1].v
        ELSE 0

\* the reference concentration (whole units), 0 when none can be resolved
ReferenceConc(pollutant, averaging_period) ==
    LET ref_data == REFERENCE_CONCENTRATIONS[pollutant]
    IN  IF KeyIndex(ref_data, averaging_period) # 0
        THEN ref_data[KeyIndex(ref_data, averaging_period)].v
        ELSE IF KeyIndex(ref_data, "annual") # 0
        THEN ref_data[KeyIndex(ref_data, "annual")].v
        ELSE IF RefValues(ref_data) # <<>>
        THEN RefValues(ref_data)[1].v
        ELSE 0

\* the upper branch written as 50 + 50 * (1 - exp(-2 * conc_ratio))
BaseRiskJump(concentration, reference_conc) ==
    IF concentration > reference_conc * 1000
    THEN LET conc_ratio == (concentration * 10) \div reference_conc
         IN  500000 + 50 * (10000 - ExpNeg(2 * conc_ratio))
    ELSE (concentration * 500) \div reference_conc

\* the lower branch written as 100 * conc_ratio
BaseRiskSteep(concentration, reference_conc) ==
    IF concentration > reference_conc * 1000
    THEN LET conc_ratio == (concentration * 10) \div reference_conc
         IN  500000 + 50 * (10000 - ExpNeg(2 * (conc_ratio - 10000)))
    ELSE (concentration * 1000) \div reference_conc

\* base_risk from the concentration ratio (1/10000 of a point)
BaseRisk(concentration, reference_conc) ==
    IF concentration > reference_conc * 1000
    THEN \* 50 + 50 * (1 - exp(-2 * (conc_ratio - 1)))
         LET conc_ratio == (concentration * 10) \div reference_conc
         IN  500000 + 50 * (10000 - ExpNeg(2 * (conc_ratio - 10000)))
    ELSE \* 50 * conc_ratio
         (concentration * 500) \div reference_conc

calculate_pollutant_risk_score(pollutant, concentration, averaging_period) ==
    IF pollutant \notin DOMAIN HEALTH_WEIGHTS THEN 0
    ELSE IF pollutant \notin DOMAIN REFERENCE_CONCENTRATIONS THEN 0
    ELSE IF ReferenceConc(pollutant, averaging_period) = 0 THEN 0
    ELSE LET reference_conc == ReferenceConc(pollutant, averaging_period)
             health_weight == HEALTH_WEIGHTS[pollutant]
             base_risk == BaseRisk(concentration, reference_conc)
             risk_score == (base_risk * health_weight) \div 10
         IN  Min2(risk_score, 1000000)

(***************************************************************************)
(* EnvironmentalRiskScoring._get_risk_level (score in 1/10000)             *)
(***************************************************************************)
RECURSIVE LevelFrom(_, _)
LevelFrom(risk_score, i) ==
    IF i > Len(RISK_THRESHOLDS) THEN "HAZARDOUS"
    ELSE IF RISK_THRESHOLDS[i][2] * 10000 <= risk_score
            /\ risk_score < RISK_THRESHOLDS[i][3] * 10000
    THEN RISK_THRESHOLDS[i][1]
    ELSE LevelFrom(risk_score, i + 1)

get_risk_level(risk_score) == LevelFrom(risk_score, 1)

(***************************************************************************)
(* Rows of environmental_measurements.  day is the measurement_date as a    *)
(* day number; the loader runs on day 1 and keeps one row for each         *)
(* (station_id, parameter, measurement_date).                              *)
(***************************************************************************)
Valid(v, day) == [value |-> v, quality_flag |-> "VALID", day |-> day]
Suspect(v, day) == [value |-> v, quality_flag |-> "SUSPECT", day |-> day]
Stale(v) == Valid(v, -44)

\* the record batches the loader is given, each for one parameter
Batch(parameter, rows) == [parameter |-> parameter, rows |-> rows]

Batches ==
    { Batch("PM2.5 Mass", <<Valid(17497, 0), Suspect(90000, -1)>>),
      Batch("PM2.5 Mass", <<Valid(60000, 0), Valid(35000, -1), Stale(99000)>>),
      Batch("PM2.5 Mass", <<Valid(-2000, 0)>>),
      Batch("SO2", <<Valid(110000, 0)>>),
      Batch("SO2", <<Valid(0, 0), Suspect(5000, -1)>>),
      Batch("Lead", <<Valid(5000, 0)>>) }

\* the stations the batches report on
BatchStations == {"S1", "S2", "S3"}

EmptyDict == [k \in {} |-> 0]

NoMeasurements == [s \in StationSet |-> [p \in ParameterSet |-> <<>>]]

LoadedCells(m) ==
    {c \in StationSet \X ParameterSet : m[c[1]][c[2]] # <<>>}

\* the default date_range: from datetime.now() - 30 days to datetime.now()
InDateRange(row) == today - 30 <= row.day /\ row.day <= today

\* the same query without "AND quality_flag = 'VALID'"
StationParamDataAnyFlag(m, station_id) ==
    [p \in ParameterSet |->
        LET rows == SelectSeq(m[station_id][p], LAMBDA r : InDateRange(r))
        IN  [i \in 1..Len(rows) |-> rows[i].value]]

\* SELECT ... WHERE station_id = :station_id AND measurement_date BETWEEN ...
\* AND quality_flag = 'VALID', grouped by parameter: param_data
StationParamData(m, station_id) ==
    [p \in ParameterSet |->
        LET rows == SelectSeq(m[station_id][p],
                        LAMBDA r : r.quality_flag = "VALID" /\ InDateRange(r))
        IN  [i \in 1..Len(rows) |-> rows[i].value]]

(***************************************************************************)
(* EnvironmentalRiskScoring.calculate_station_risk_score                   *)
(***************************************************************************)
\* what the loop over param_data adds for one parameter
ComponentOf(param, values) ==
    LET risk_concentration == Percentile95(values)
        param_risk == calculate_pollutant_risk_score(param, risk_concentration, "24hour")
    IN  [risk_score |-> Round2(param_risk),
         avg_concentration |-> MeanRound3(values),
         max_concentration |-> MaxOf(values),
         risk_concentration |-> risk_concentration,
         sample_count |-> Len(values),
         weight |-> HEALTH_WEIGHTS[param],
         param_risk |-> param_risk]

\* the parameters the loop scores: present in param_data and in HEALTH_WEIGHTS
ScoredParams(param_data) ==
    {p \in ParameterSet : param_data[p] # <<>> /\ p \in DOMAIN HEALTH_WEIGHTS}

RECURSIVE TotalWeightedRisk(_, _)
TotalWeightedRisk(param_data, i) ==
    IF i > Len(Parameters) THEN 0
    ELSE (IF Parameters[i] \in ScoredParams(param_data)
          THEN ComponentOf(Parameters[i], param_data[Parameters[i]]).param_risk
                   * HEALTH_WEIGHTS[Parameters[i]]
          ELSE 0) + TotalWeightedRisk(param_data, i + 1)

\* every scored parameter counted with weight 1.0
TotalWeightAsCount(param_data, i) ==
    IF i = 1 THEN 10 * Cardinality(ScoredParams(param_data)) ELSE 0

\* every parameter that has data counted, one without a health weight as 1.0
RECURSIVE TotalWeightAllParams(_, _)
TotalWeightAllParams(param_data, i) ==
    IF i > Len(Parameters) THEN 0
    ELSE (IF param_data[Parameters[i]] = <<>> THEN 0
          ELSE IF Parameters[i] \in DOMAIN HEALTH_WEIGHTS
          THEN HEALTH_WEIGHTS[Parameters[i]]
          ELSE 10) + TotalWeightAllParams(param_data, i + 1)

RECURSIVE TotalWeight(_, _)
TotalWeight(param_data, i) ==
    IF i > Len(Parameters) THEN 0
    ELSE (IF Parameters[i] \in ScoredParams(param_data)
          THEN HEALTH_WEIGHTS[Parameters[i]]
          ELSE 0) + TotalWeight(param_data, i + 1)

\* composite_risk, in 1/10000
CompositeRisk(total_weighted_risk, total_weight) ==
    IF total_weight > 0 THEN total_weighted_risk \div total_weight ELSE 0

\* the data_availability tag of a result built from component_risks
StationAvailability(component_risks) ==
    IF Cardinality(DOMAIN component_risks) >= 2 THEN "GOOD" ELSE "LIMITED"

\* the except branch handing back the no-data result
StationErrorAsNoData(station_id) ==
    [station_id |-> station_id, risk_score |-> 0, risk_level |-> "LOW",
     components |-> EmptyDict, data_availability |-> "NO_DATA"]

StationErrorResult(station_id) ==
    [station_id |-> station_id, risk_score |-> 0, risk_level |-> "LOW",
     components |-> EmptyDict, error |-> "error"]

StationNoDataResult(station_id) ==
    [station_id |-> station_id, risk_score |-> 0, risk_level |-> "LOW",
     components |-> EmptyDict, data_availability |-> "NO_DATA"]

\* db_ok = FALSE: get_connection or the query raises inside the try block
calculate_station_risk_score(m, station_id, db_ok) ==
    IF ~db_ok THEN StationErrorResult(station_id)
    ELSE LET param_data == StationParamData(m, station_id)
         IN  IF \A p \in ParameterSet : param_data[p] = <<>>
             THEN StationNoDataResult(station_id)
             ELSE LET component_risks ==
                          [p \in ScoredParams(param_data) |->
                              [f \in DOMAIN ComponentOf(p, param_data[p]) \ {"param_risk"} |->
                                  ComponentOf(p, param_data[p])[f]]]
                      composite_risk ==
                          CompositeRisk(TotalWeightedRisk(param_data, 1),
                                        TotalWeight(param_data, 1))
                  IN  [station_id |-> station_id,
                       risk_score |-> Round2(composite_risk),
                       risk_level |-> get_risk_level(composite_risk),
                       components |-> component_risks,
                       analysis_period |-> [days_analyzed |-> 30],
                       data_availability |-> StationAvailability(component_risks)]

(***************************************************************************)
(* EnvironmentalRiskScoring.calculate_county_risk_score                    *)
(* down: the stations, counties and "WA" (the statewide query) whose       *)
(* store access raises during the call.                                    *)
(***************************************************************************)
None == [none |-> TRUE]

\* monitoring_stations JOIN administrative_boundaries ... WHERE b.name = :county_name
CountyStations(county_name) ==
    SelectSeq(Stations, LAMBDA s : CountyOf[s] = county_name)

CountyErrorResult(county_name) ==
    [county |-> county_name, risk_score |-> 0, risk_level |-> "LOW",
     error |-> "error"]

CountyNoStationsResult(county_name) ==
    [county |-> county_name, risk_score |-> 0, risk_level |-> "LOW",
     stations |-> <<>>, data_availability |-> "NO_STATIONS"]

\* the entry appended to station_risks
StationEntry(station_risk) ==
    [station_id |-> station_risk.station_id,
     risk_score |-> station_risk.risk_score,
     risk_level |-> station_risk.risk_level,
     components |-> station_risk.components]

RECURSIVE SumRiskScore(_)
SumRiskScore(results) ==
    IF results = <<>> THEN 0
    ELSE Head(results).risk_score + SumRiskScore(Tail(results))

\* the return statement, from the stations that passed the NO_DATA test
CountyAggregate(county_name, counted) ==
    LET station_risks == [i \in 1..Len(counted) |-> StationEntry(counted[i])]
        total_risk == SumRiskScore(counted)
        valid_stations == Len(counted)
        county_risk == IF valid_stations > 0
                       THEN (total_risk * 100) \div valid_stations
                       ELSE 0
    IN  [county |-> county_name,
         risk_score |-> Round2(county_risk),
         risk_level |-> IF valid_stations > 0 THEN get_risk_level(county_risk)
                        ELSE "LOW",
         stations |-> station_risks,
         station_count |-> valid_stations,
         analysis_period |-> IF station_risks # <<>>
                             THEN [start_date |-> None, end_date |-> None,
                                   days_analyzed |-> None]
                             ELSE None,
         data_availability |-> IF valid_stations >= 2 THEN "GOOD"
                               ELSE IF valid_stations = 1 THEN "LIMITED"
                               ELSE "NO_DATA"]

calculate_county_risk_score(m, county_name, down) ==
    IF county_name \in down THEN CountyErrorResult(county_name)
    ELSE LET stations == CountyStations(county_name)
             station_risk == [i \in 1..Len(stations) |->
                 calculate_station_risk_score(m, stations[i], stations[i] \notin down)]
         IN  IF stations = <<>> THEN CountyNoStationsResult(county_name)
             ELSE IF \E i \in 1..Len(stations) :
                        "data_availability" \notin DOMAIN station_risk[i]
             THEN \* station_risk['data_availability'] raises KeyError
                  CountyErrorResult(county_name)
             ELSE CountyAggregate(county_name,
                      SelectSeq(station_risk,
                                LAMBDA r : r.data_availability # "NO_DATA"))

(***************************************************************************)
(* EnvironmentalRiskScoring.calculate_statewide_risk_summary               *)
(***************************************************************************)
\* largest r with r * r <= x, searched in lo..hi
RECURSIVE IsqrtIn(_, _, _)
IsqrtIn(x, lo, hi) ==
    IF lo >= hi THEN lo
    ELSE LET mid == (lo + hi + 1) \div 2
         IN  IF mid * mid <= x THEN IsqrtIn(x, mid, hi)
             ELSE IsqrtIn(x, lo, mid - 1)

Isqrt(x) == IsqrtIn(x, 0, 40000)

RECURSIVE SumSquares(_)
SumSquares(s) == IF s = <<>> THEN 0 ELSE Head(s) * Head(s) + SumSquares(Tail(s))

\* np.median of values in 1/100, in 1/10000
MedianOf(values) ==
    LET sorted == SortAsc(values)
        n == Len(values)
    IN  IF n % 2 = 1 THEN sorted[(n + 1) \div 2] * 100
        ELSE (sorted[n \div 2] + sorted[n \div 2 + 1]) * 50

\* np.std (population) of values in 1/100, in 1/100, to nearest
StdOf(values) ==
    LET n == Len(values)
        spread == n * SumSquares(values) - SumSeq(values) * SumSeq(values)
    IN  (Isqrt(spread) * 2 + n) \div (2 * n)

\* list.sort(key=risk_score, reverse=True): stable
RECURSIVE InsertByRisk(_, _)
InsertByRisk(x, s) ==
    IF s = <<>> THEN <<x>>
    ELSE IF x.risk_score > Head(s).risk_score THEN <<x>> \o s
    ELSE <<Head(s)>> \o InsertByRisk(x, Tail(s))

RECURSIVE SortByRiskDesc(_)
SortByRiskDesc(s) ==
    IF s = <<>> THEN <<>>
    ELSE InsertByRisk(s[Len(s)], SortByRiskDesc(SubSeq(s, 1, Len(s) - 1)))

\* SELECT DISTINCT b.name ... JOIN monitoring_stations ... ORDER BY b.name
CountiesWithStations ==
    SelectSeq(Counties, LAMBDA c : CountyStations(c) # <<>>)

\* the return statement, from the counties that passed the NO_DATA test
StatewideAggregate(county_risks) ==
    IF county_risks # <<>>
    THEN LET total_risk == SumRiskScore(county_risks)
             risk_scores_list == [i \in 1..Len(county_risks) |->
                                     county_risks[i].risk_score]
         IN  [statewide_summary |->
                 [average_risk |-> Round2((total_risk * 100) \div Len(county_risks)),
                  median_risk |-> Round2(MedianOf(risk_scores_list)),
                  min_risk |-> SortAsc(risk_scores_list)[1],
                  max_risk |-> MaxOf(risk_scores_list),
                  std_risk |-> StdOf(risk_scores_list)],
              county_rankings |-> SortByRiskDesc(county_risks),
              counties_analyzed |-> Len(county_risks),
              data_availability |-> "GOOD"]
    ELSE [statewide_summary |-> EmptyDict,
          county_rankings |-> <<>>,
          counties_analyzed |-> 0,
          data_availability |-> "NO_DATA"]

calculate_statewide_risk_summary(m, down) ==
    IF "WA" \in down THEN [error |-> "error"]
    ELSE LET counties == CountiesWithStations
             county_risk == [i \in 1..Len(counties) |->
                 calculate_county_risk_score(m, counties[i], down)]
         IN  IF \E i \in 1..Len(counties) :
                    "data_availability" \notin DOMAIN county_risk[i]
             THEN \* county_risk['data_availability'] raises KeyError
                  [error |-> "error"]
             ELSE StatewideAggregate(
                      SelectSeq(county_risk,
                                LAMBDA r : r.data_availability # "NO_DATA"))

(***************************************************************************)
(* SpatialStatsEngine: the rows detect_pollution_hotspots analyses.        *)
(* avg_value is in 1/100 (of a unit, or of a score point).                 *)
(***************************************************************************)
SIGNIFICANCE_LEVELS ==
    [l \in {"90%", "95%", "99%"} |->
        CASE l = "90%" -> 1645
          [] l = "95%" -> 1960
          [] l = "99%" -> 2576]

\* parameter=None, or any other value "if parameter:" takes for false
NoParameter == ""

Abs(x) == IF x < 0 THEN -x ELSE x

HotspotRow(station_id, avg_value, measurement_count) ==
    [station_id |-> station_id,
     longitude |-> Longitude[station_id],
     latitude |-> Latitude[station_id],
     avg_value |-> avg_value,
     measurement_count |-> measurement_count]

\* AVG(m.value): values in 1/1000, the average in 1/100, to nearest
AvgValue(values) ==
    (2 * SumSeq(values) + 10 * Len(values)) \div (20 * Len(values))

\* the query leaving out the stations pollution_hotspots already lists
MeasurementRowsNotYetArchived(m, parameter) ==
    LET having == SelectSeq(Stations,
                      LAMBDA s : /\ parameter \in ParameterSet
                                 /\ Len(StationParamData(m, s)[parameter]) >= 5
                                 /\ \A row \in BagToSet(pollution_hotspots) :
                                        row.station_id # s)
    IN  [i \in 1..Len(having) |->
            HotspotRow(having[i],
                       AvgValue(StationParamData(m, having[i])[parameter]),
                       Len(StationParamData(m, having[i])[parameter]))]

\* SELECT ... AVG(m.value), COUNT(m.value) ... WHERE m.parameter = :parameter
\* AND m.measurement_date BETWEEN ... AND m.quality_flag = 'VALID'
\* GROUP BY s.station_id ... HAVING COUNT(m.value) >= 5 ORDER BY s.station_id
MeasurementRows(m, parameter) ==
    LET having == SelectSeq(Stations,
                      LAMBDA s : /\ parameter \in ParameterSet
                                 /\ Len(StationParamData(m, s)[parameter]) >= 5)
    IN  [i \in 1..Len(having) |->
            HotspotRow(having[i],
                       AvgValue(StationParamData(m, having[i])[parameter]),
                       Len(StationParamData(m, having[i])[parameter]))]

RECURSIVE SortedSeqOf(_)
SortedSeqOf(S) ==
    IF S = {} THEN <<>>
    ELSE LET least == CHOOSE x \in S : \A y \in S : x <= y
         IN  <<least>> \o SortedSeqOf(S \ {least})

\* the distinct risk_score values stored for a station, ascending
StoredScores(store, station_id) ==
    SortedSeqOf({row.risk_score :
                    row \in {r \in BagToSet(store) :
                                /\ r.location_type = "station"
                                /\ r.location_id = station_id}})

\* SELECT DISTINCT s.station_id, ..., ers.risk_score, 1 FROM monitoring_stations s
\* JOIN environmental_risk_scores ers ON s.station_id = ers.location_id
\* WHERE ers.location_type = 'station' ORDER BY s.station_id; the rows of one
\* station follow in the order a sort-based DISTINCT leaves them
RECURSIVE RiskScoreRowsFrom(_, _)
RiskScoreRowsFrom(store, i) ==
    IF i > Len(Stations) THEN <<>>
    ELSE LET scores == StoredScores(store, Stations[i])
         IN  [j \in 1..Len(scores) |-> HotspotRow(Stations[i], scores[j], 1)]
                 \o RiskScoreRowsFrom(store, i + 1)

RiskScoreRows(store) == RiskScoreRowsFrom(store, 1)

\* the stored risk scores taken whenever there are enough of them
HotspotDataScoresFirst(m, store, parameter) ==
    IF parameter # NoParameter /\ Len(RiskScoreRows(store)) < 3
    THEN MeasurementRows(m, parameter)
    ELSE RiskScoreRows(store)

\* the branch on "if parameter:" that selects the query
HotspotData(m, store, parameter) ==
    IF parameter # NoParameter THEN MeasurementRows(m, parameter)
    ELSE RiskScoreRows(store)

(***************************************************************************)
(* SpatialStatsEngine.calculate_spatial_weights.                           *)
(* Weights are in 1/10000.                                                 *)
(***************************************************************************)
\* the haversine distance NearestNeighbors measures between two rows, in
\* 1/100 of a degree of arc.  A row is handed over as [x, y] = [longitude,
\* latitude] and the metric reads the first column as the latitude: the
\* stations share one y, so they lie on one meridian of that reading and
\* their distance is the difference of their x.
Haversine(a, b) == Abs(a.longitude - b.longitude)

\* kneighbors(): the min(k + 1, n) rows nearest to row i, row i among them.
\* Which of several equidistant rows the search lists first is left to the
\* library: ties says whether the earlier or the later row is taken.
KNeighbors(rows, i, k, ties) ==
    LET n == Len(rows)
        Before(l, j) ==
            \/ Haversine(rows[i], rows[l]) < Haversine(rows[i], rows[j])
            \/ /\ Haversine(rows[i], rows[l]) = Haversine(rows[i], rows[j])
               /\ IF ties = "earlier" THEN l < j ELSE l > j
    IN  {j \in 1..n : Cardinality({l \in 1..n : Before(l, j)}) < Min2(k + 1, n)}

\* the knn loop without "weights[j, i] = weights[i, j]"
InverseDistanceOneWay(rows, i, j, k, ties) ==
    IF Haversine(rows[i], rows[j]) > 0 /\ j \in KNeighbors(rows, i, k, ties)
    THEN 84000 \div Haversine(rows[i], rows[j])
    ELSE 0

\* weights[i, j] before the rows are normalised: 1.0 / distance (as
\* 84000 / distance) where i lists j or j lists i at a distance > 0
InverseDistance(rows, i, j, k, ties) ==
    IF /\ Haversine(rows[i], rows[j]) > 0
       /\ (j \in KNeighbors(rows, i, k, ties) \/ i \in KNeighbors(rows, j, k, ties))
    THEN 84000 \div Haversine(rows[i], rows[j])
    ELSE 0

\* spatial.distance_matrix(coords, coords, p=2) of rows that share one y
DistanceMatrix(rows) ==
    [i \in 1..Len(rows) |->
        [j \in 1..Len(rows) |-> Abs(rows[i].longitude - rows[j].longitude)]]

\* np.where(dist_matrix > 0, 1.0 / dist_matrix, 0); np.fill_diagonal(weights, 0)
DistanceWeights(rows) ==
    LET dist_matrix == DistanceMatrix(rows)
    IN  [i \in 1..Len(rows) |->
            [j \in 1..Len(rows) |->
                IF i # j /\ dist_matrix[i][j] > 0 THEN 84000 \div dist_matrix[i][j]
                ELSE 0]]

\* the weights handed back as they are
RowNormalizeSkipped(weights) == weights

\* weights / row_sums where row_sums > 0, else 0
RowNormalize(weights) ==
    [i \in 1..Len(weights) |->
        [j \in 1..Len(weights) |->
            IF SumSeq(weights[i]) > 0
            THEN (weights[i][j] * 10000) \div SumSeq(weights[i])
            ELSE 0]]

\* weights before "# Row-normalize weights": np.zeros for any other method
RawWeights(rows, method, k, ties) ==
    IF method = "knn"
    THEN [i \in 1..Len(rows) |->
             [j \in 1..Len(rows) |-> InverseDistance(rows, i, j, k, ties)]]
    ELSE IF method = "distance" THEN DistanceWeights(rows)
    ELSE [i \in 1..Len(rows) |-> [j \in 1..Len(rows) |-> 0]]

\* NearestNeighbors(n_neighbors=min(k+1, n_stations)) and distance_matrix
\* raise on an empty frame, NearestNeighbors also on n_neighbors <= 0
WeightsRaise(rows, method, k) ==
    \/ method \in {"knn", "distance"} /\ Len(rows) = 0
    \/ method = "knn" /\ Min2(k + 1, Len(rows)) <= 0

calculate_spatial_weights(rows, method, k, ties) ==
    \* the matrix of inverse distances is filled once, then normalised
    CHOOSE normalized \in
        {RowNormalize(weights) : weights \in {RawWeights(rows, method, k, ties)}} :
        TRUE

(***************************************************************************)
(* SpatialStatsEngine.getis_ord_gi_star.  z-scores are in 1/1000.          *)
(***************************************************************************)
\* the variance taken without its division by n - 1
ZScoreOverN(excess, spread, shape, n) ==
    LET magnitude == ((Abs(excess) \div Isqrt(spread)) * Isqrt(n * 1000000))
                         \div Isqrt(shape)
    IN  IF excess < 0 THEN -magnitude ELSE magnitude

\* (local_sum - expected) / sqrt(variance), from
\*   excess = n * (local_sum - expected)
\*   spread = n * n * s_squared
\*   shape  = n * sum(w_i ** 2) - sum_weights ** 2
\* so that z = excess * sqrt(n - 1) / sqrt(spread * shape)
ZScore(excess, spread, shape, n) ==
    LET magnitude == ((Abs(excess) \div Isqrt(spread)) * Isqrt((n - 1) * 1000000))
                         \div Isqrt(shape)
    IN  IF excess < 0 THEN -magnitude ELSE magnitude

\* the comparison written with >=, and cold spots left out
ClassificationHotOnly(z_score, critical_value) ==
    IF z_score >= critical_value THEN "HOT_SPOT" ELSE "NOT_SIGNIFICANT"

Classification(z_score, critical_value) ==
    IF Abs(z_score) > critical_value
    THEN IF z_score > 0 THEN "HOT_SPOT" ELSE "COLD_SPOT"
    ELSE "NOT_SIGNIFICANT"

\* the p_values (stats.norm.cdf of the z-scores) are not carried
getis_ord_gi_star(values, weights, significance_level) ==
    LET n == Len(values)
    IN  IF n < 3 THEN EmptyDict
        ELSE LET total == SumSeq(values)
                 spread == n * SumSquares(values) - total * total
                 w(i) == [j \in 1..n |-> IF j = i THEN 10000 ELSE weights[i][j]]
                 local_sum(i) == SumSeq([j \in 1..n |-> w(i)[j] * values[j]])
                 sum_weights(i) == SumSeq(w(i))
                 excess(i) == n * local_sum(i) - total * sum_weights(i)
                 shape(i) == n * SumSquares(w(i)) - sum_weights(i) * sum_weights(i)
                 z_scores == [i \in 1..n |->
                                 IF spread > 0 /\ shape(i) > 0
                                 THEN ZScore(excess(i), spread, shape(i), n)
                                 ELSE 0]
                 critical_value == SIGNIFICANCE_LEVELS[significance_level]
             IN  [z_scores |-> z_scores,
                  classifications |->
                      [i \in 1..n |-> Classification(z_scores[i], critical_value)],
                  significance_level |-> significance_level,
                  critical_value |-> critical_value]

(***************************************************************************)
(* SpatialStatsEngine.detect_pollution_hotspots                            *)
(***************************************************************************)
SpotEntry(row, z_score) ==
    [station_id |-> row.station_id,
     longitude |-> row.longitude,
     latitude |-> row.latitude,
     value |-> row.avg_value,
     z_score |-> z_score]

\* the entries of the rows that carry one classification, in row order
SpotsOf(data, gi_results, classification) ==
    LET picked == SelectSeq([i \in 1..Len(data) |-> i],
                      LAMBDA i : gi_results.classifications[i] = classification)
    IN  [j \in 1..Len(picked) |->
            SpotEntry(data[picked[j]], gi_results.z_scores[picked[j]])]

InsufficientData(parameter, data) ==
    [parameter |-> parameter, stations_analyzed |-> Len(data),
     hotspots |-> <<>>, error |-> "Insufficient data"]

\* the results dict of a completed analysis
HotspotResults(parameter, significance_level, data, gi_results) ==
    LET hotspots == SpotsOf(data, gi_results, "HOT_SPOT")
        coldspots == SpotsOf(data, gi_results, "COLD_SPOT")
    IN  [parameter |-> IF parameter # NoParameter THEN parameter ELSE "Risk Score",
         analysis_date |-> today,
         date_range |-> [start |-> today - 30, end |-> today],
         significance_level |-> significance_level,
         stations_analyzed |-> Len(data),
         summary |-> [hotspots |-> Len(hotspots),
                      coldspots |-> Len(coldspots),
                      not_significant |-> Len(data) - Len(hotspots) - Len(coldspots)],
         hotspot_stations |-> hotspots,
         coldspot_stations |-> coldspots]

\* the analysis of the fetched rows, from "if len(data) < 3" on
AnalyseRows(parameter, significance_level, data) ==
    IF Len(data) < 3 THEN InsufficientData(parameter, data)
    ELSE IF significance_level \notin DOMAIN SIGNIFICANCE_LEVELS
    THEN \* self.SIGNIFICANCE_LEVELS[significance_level] raises KeyError
         [error |-> "error"]
    ELSE LET values == [i \in 1..Len(data) |-> data[i].avg_value]
             \* weights = ...; gi_results = ...: each evaluated once
             gi_results ==
                 CHOOSE r \in {getis_ord_gi_star(values, weights, significance_level) :
                                  weights \in {calculate_spatial_weights(data, "knn", 3, "earlier")}} : TRUE
         IN  IF gi_results = EmptyDict
             THEN [error |-> "Gi* calculation failed"]
             ELSE HotspotResults(parameter, significance_level, data, gi_results)

\* what the call returns; db_ok = FALSE: get_connection or the query raises
detect_pollution_hotspots(m, store, parameter, significance_level, db_ok) ==
    IF ~db_ok THEN [error |-> "error"]
    ELSE \* data = result.fetchall(): evaluated once
         CHOOSE r \in {AnalyseRows(parameter, significance_level, data) :
                          data \in {HotspotData(m, store, parameter)}} : TRUE

\* SpatialStatsEngine._save_hotspot_results: the rows it inserts into
\* pollution_hotspots
HotspotArchiveRows(results) ==
    IF "hotspot_stations" \notin DOMAIN results THEN <<>>
    ELSE [i \in 1..Len(results.hotspot_stations) |->
             [parameter |-> results.parameter,
              hotspot_type |-> "HOT_SPOT",
              station_id |-> results.hotspot_stations[i].station_id,
              z_score |-> results.hotspot_stations[i].z_score,
              significance_level |-> results.significance_level,
              analysis_date |-> today]]

(***************************************************************************)
(* EnvironmentalRiskScoring.save_risk_scores_to_db                         *)
(***************************************************************************)
\* the values bound to the INSERT
RiskScoreRow(risk_data, location_type) ==
    [location_id |-> IF "station_id" \in DOMAIN risk_data THEN risk_data.station_id
                     ELSE risk_data.county,
     location_type |-> location_type,
     risk_score |-> risk_data.risk_score,
     risk_category |-> risk_data.risk_level,
     contributing_factors |-> IF "components" \in DOMAIN risk_data
                              THEN risk_data.components ELSE EmptyDict,
     calculation_date |-> today]

RECURSIVE SeqToBag(_)
SeqToBag(rows) ==
    IF rows = <<>> THEN EmptyBag
    ELSE SetToBag({Head(rows)}) (+) SeqToBag(Tail(rows))

\* the key the rows would have as (location_id, location_type, calculation_date)
SameKey(r1, r2) ==
    /\ r1.location_id = r2.location_id
    /\ r1.location_type = r2.location_type
    /\ r1.calculation_date = r2.calculation_date

\* INSERT ... ON CONFLICT (location_id, location_type, calculation_date) DO UPDATE
UpsertRiskScore(store, row) ==
    LET kept == {r \in BagToSet(store) : ~SameKey(r, row)}
    IN  [r \in kept |-> store[r]] (+) SetToBag({row})

\* INSERT INTO environmental_risk_scores: id SERIAL is the only key
InsertRiskScore(store, row) == store (+) SetToBag({row})

(***************************************************************************)
(* SpatialStatsEngine: the analyses that read the measurements of every    *)
(* date.  Of a completed analysis the parameters and the number of         *)
(* stations are carried.                                                   *)
(***************************************************************************)
CLUSTERING_PARAMS == [eps |-> 10, min_samples |-> 2, metric |-> "haversine"]

\* the VALID values a station holds for the parameter, of any date; without
\* "AND m.parameter = :parameter" those of every parameter
AllTimeValues(m, station_id, parameter) ==
    LET valid(p) == SelectSeq(m[station_id][p], LAMBDA r : r.quality_flag = "VALID")
        values(p) == [i \in 1..Len(valid(p)) |-> valid(p)[i].value]
        pooled[i \in 0..Len(Parameters)] ==
            IF i = 0 THEN <<>> ELSE pooled[i - 1] \o values(Parameters[i])
    IN  IF parameter = NoParameter THEN pooled[Len(Parameters)]
        ELSE IF parameter \in ParameterSet THEN values(parameter)
        ELSE <<>>

\* SELECT ... AVG(m.value) ... WHERE m.quality_flag = 'VALID' [AND m.parameter
\* = :parameter] GROUP BY s.station_id ... HAVING COUNT(m.value) >= having;
\* the rows are taken in the order of station_id
GroupedRows(m, parameter, having) ==
    LET kept == SelectSeq(Stations,
                    LAMBDA s : Len(AllTimeValues(m, s, parameter)) >= having)
    IN  [i \in 1..Len(kept) |->
            HotspotRow(kept[i],
                       AvgValue(AllTimeValues(m, kept[i], parameter)),
                       Len(AllTimeValues(m, kept[i], parameter)))]

\* {'error': f'Insufficient stations for ...: {len(data)}', 'min_required': ...}
InsufficientStations(analysis, data, min_required) ==
    [error |-> "Insufficient stations for " \o analysis,
     stations |-> Len(data),
     min_required |-> min_required]

\* the haversine distance of two rows, in radians, is at most eps; the rows
\* are 1/100 of a degree apart and eps is in 1/100 (of a radian: the metric
\* is handed np.radians of the coordinates)
WithinEps(a, b, eps) == Haversine(a, b) * 174533 <= eps * 10000000

\* the rows in the eps-neighbourhood of row i, row i among them
EpsNeighbours(data, i, eps) ==
    {j \in 1..Len(data) : WithinEps(data[i], data[j], eps)}

\* core samples: at least min_samples rows in the neighbourhood
CoreSamples(data, eps, min_samples) ==
    {i \in 1..Len(data) : Cardinality(EpsNeighbours(data, i, eps)) >= min_samples}

\* the core samples reached from those of S through core samples
RECURSIVE Expand(_, _, _, _)
Expand(data, S, eps, core) ==
    LET reached == S \cup {j \in core : \E i \in S : j \in EpsNeighbours(data, i, eps)}
    IN  IF reached = S THEN S ELSE Expand(data, reached, eps, core)

\* DBSCAN.fit: the rows are visited in order; an unlabelled core sample
\* opens the next cluster, which takes the core samples reached from it and
\* the rows near them that carry no label yet
RECURSIVE DbscanFrom(_, _, _, _, _, _)
DbscanFrom(data, i, labels, next, eps, core) ==
    IF i > Len(data) THEN labels
    ELSE IF i \notin core \/ labels[i] # -1
    THEN DbscanFrom(data, i + 1, labels, next, eps, core)
    ELSE LET cores == Expand(data, {i}, eps, core)
             members == {j \in 1..Len(data) :
                            \E c \in cores : j \in EpsNeighbours(data, c, eps)}
         IN  DbscanFrom(data, i + 1,
                        [j \in 1..Len(data) |->
                            IF j \in members /\ labels[j] = -1 THEN next ELSE labels[j]],
                        next + 1, eps, core)

\* clustering.labels_: -1 is noise
DbscanLabels(data, eps, min_samples) ==
    DbscanFrom(data, 1, [j \in 1..Len(data) |-> -1], 0, eps,
               CoreSamples(data, eps, min_samples))

\* the rows that carry the label, in row order
RowsLabelled(data, labels, label) ==
    LET picked == SelectSeq([i \in 1..Len(data) |-> i], LAMBDA i : labels[i] = label)
    IN  [j \in 1..Len(picked) |-> data[picked[j]]]

\* cluster_info; std_pollution, the centre and the spread are not carried
ClusterInfo(data, labels, cluster_id) ==
    LET cluster_stations == RowsLabelled(data, labels, cluster_id)
        values == [i \in 1..Len(cluster_stations) |-> cluster_stations[i].avg_value]
    IN  [cluster_id |-> cluster_id,
         station_count |-> Len(cluster_stations),
         stations |-> [i \in 1..Len(cluster_stations) |-> cluster_stations[i].station_id],
         avg_pollution |-> (2 * SumSeq(values) + Len(values)) \div (2 * Len(values))]

OutlierEntry(row) ==
    [station_id |-> row.station_id, longitude |-> row.longitude,
     latitude |-> row.latitude, avg_value |-> row.avg_value]

\* the results dict of a completed clustering
ClusteringResults(parameter, eps, min_samples, data, labels) ==
    LET unique_clusters == SortedSeqOf({labels[i] : i \in 1..Len(data)} \ {-1})
        outliers == RowsLabelled(data, labels, -1)
    IN  [parameter |-> IF parameter # NoParameter THEN parameter ELSE "All Parameters",
         analysis_date |-> today,
         clustering_params |-> [eps |-> eps, min_samples |-> min_samples,
                                metric |-> "haversine"],
         stations_analyzed |-> Len(data),
         clusters_found |-> Len(unique_clusters),
         outliers |-> Len(outliers),
         cluster_summary |->
             [c \in 1..Len(unique_clusters) |-> ClusterInfo(data, labels, unique_clusters[c])],
         outlier_stations |-> [i \in 1..Len(outliers) |-> OutlierEntry(outliers[i])]]

\* the threshold of spatial_clustering_analysis fixed at five stations
ClusteringRowsFiveRequired(parameter, eps, min_samples, data) ==
    IF Len(data) < 5
    THEN InsufficientStations("clustering", data, 5)
    ELSE ClusteringResults(parameter, eps, min_samples, data,
                           DbscanLabels(data, eps, min_samples))

\* the noise rows left out of the results
ClusteringRowsWithoutNoise(parameter, eps, min_samples, data) ==
    IF Len(data) < min_samples
    THEN InsufficientStations("clustering", data, min_samples)
    ELSE [ClusteringResults(parameter, eps, min_samples, data,
                            DbscanLabels(data, eps, min_samples))
             EXCEPT !.outlier_stations = <<>>]

\* spatial_clustering_analysis from "if len(data) < min_samples" on, without
\* the archival write; DBSCAN refuses min_samples < 1 and eps <= 0
ClusteringRows(parameter, eps, min_samples, data) ==
    IF Len(data) < min_samples
    THEN InsufficientStations("clustering", data, min_samples)
    ELSE IF min_samples < 1 \/ eps <= 0 THEN [error |-> "error"]
    ELSE CHOOSE r \in {ClusteringResults(parameter, eps, min_samples, data, labels) :
                          labels \in {DbscanLabels(data, eps, min_samples)}} : TRUE

\* what the call returns
spatial_clustering_analysis(m, parameter, eps, min_samples, db_ok) ==
    IF ~db_ok THEN [error |-> "error"]
    ELSE CHOOSE r \in {ClusteringRows(parameter, eps, min_samples, data) :
                          data \in {GroupedRows(m, parameter, 5)}} : TRUE

\* SpatialStatsEngine._save_clustering_results: the rows it inserts into
\* spatial_clusters, the cluster members before the outliers
RECURSIVE ClusterMemberRows(_, _)
ClusterMemberRows(results, c) ==
    IF c > Len(results.cluster_summary) THEN <<>>
    ELSE LET cluster == results.cluster_summary[c]
         IN  [i \in 1..Len(cluster.stations) |->
                 [parameter |-> results.parameter,
                  cluster_id |-> cluster.cluster_id,
                  station_id |-> cluster.stations[i],
                  cluster_type |-> "CLUSTER",
                  avg_pollution |-> cluster.avg_pollution,
                  analysis_date |-> today]]
                 \o ClusterMemberRows(results, c + 1)

ClusterArchiveRows(results) ==
    IF "cluster_summary" \notin DOMAIN results THEN <<>>
    ELSE ClusterMemberRows(results, 1)
             \o [i \in 1..Len(results.outlier_stations) |->
                    [parameter |-> results.parameter,
                     cluster_id |-> -1,
                     station_id |-> results.outlier_stations[i].station_id,
                     cluster_type |-> "OUTLIER",
                     avg_pollution |-> results.outlier_stations[i].avg_value,
                     analysis_date |-> today]]

\* self.INTERPOLATION_PARAMS, lengths in 1/100 of a degree
INTERPOLATION_PARAMS == [grid_resolution |-> 1, max_distance |-> 50, power |-> 2]

\* wa_bounds, in 1/100 of a degree
wa_bounds == [min_lon |-> -12480, max_lon |-> -11690, min_lat |-> 4550, max_lat |-> 4900]

\* len(np.arange(lo, hi, step))
ArangeLen(lo, hi, step) == (hi - lo + step - 1) \div step

\* grid_points: np.meshgrid flattened, the longitude running fastest
GridPoints(grid_resolution) ==
    LET columns == ArangeLen(wa_bounds.min_lon, wa_bounds.max_lon, grid_resolution)
        lines == ArangeLen(wa_bounds.min_lat, wa_bounds.max_lat, grid_resolution)
    IN  [i \in 1..(columns * lines) |->
            [longitude |-> wa_bounds.min_lon + ((i - 1) % columns) * grid_resolution,
             latitude |-> wa_bounds.min_lat + ((i - 1) \div columns) * grid_resolution]]

\* the square of np.sqrt(np.sum((station_coords - grid_point)**2))
SquaredDistance(a, b) ==
    (a.longitude - b.longitude) * (a.longitude - b.longitude)
        + (a.latitude - b.latitude) * (a.latitude - b.latitude)

\* weighted_sum / weight_sum with weights 1 / distances ** 2 (as 10 ^ 7 /
\* distance ** 2); a station on the grid point itself (distance raised to
\* 1e-10) leaves the others no share
IdwValue(data, grid_point) ==
    LET n == Len(data)
        on_point == SelectSeq(data, LAMBDA row : SquaredDistance(row, grid_point) = 0)
        weights == [i \in 1..n |-> 10000000 \div SquaredDistance(data[i], grid_point)]
    IN  IF on_point # <<>>
        THEN SumSeq([i \in 1..Len(on_point) |-> on_point[i].avg_value]) \div Len(on_point)
        ELSE SumSeq([i \in 1..n |-> weights[i] * data[i].avg_value]) \div SumSeq(weights)

\* the grid points out of reach but within two degrees of the first station
\* keep the 0 np.zeros put there and count as interpolated
InterpolatedCellZeroFilled(data, grid_point) ==
    IF \E i \in 1..Len(data) :
           SquaredDistance(data[i], grid_point)
               < INTERPOLATION_PARAMS.max_distance * INTERPOLATION_PARAMS.max_distance
    THEN [nan |-> FALSE, value |-> IdwValue(data, grid_point)]
    ELSE [nan |-> SquaredDistance(data[1], grid_point) > 40000, value |-> 0]

\* interpolated_values[i]: np.nan unless np.min(distances) <= max_distance
InterpolatedCell(data, grid_point) ==
    IF \E i \in 1..Len(data) :
           SquaredDistance(data[i], grid_point)
               <= INTERPOLATION_PARAMS.max_distance * INTERPOLATION_PARAMS.max_distance
    THEN [nan |-> FALSE, value |-> IdwValue(data, grid_point)]
    ELSE [nan |-> TRUE, value |-> 0]

\* np.std of values about their mean, to the unit
StdAboutMean(values) ==
    LET mean == SumSeq(values) \div Len(values)
    IN  Isqrt(SumSquares([i \in 1..Len(values) |-> values[i] - mean]) \div Len(values))

\* the results dict, from the interpolated values of the grid points;
\* coverage_percent in 1/10 of a percent
InterpolationResults(parameter, grid_resolution, data, interpolated_values) ==
    LET valid == SelectSeq(interpolated_values, LAMBDA cell : ~cell.nan)
        valid_values == [i \in 1..Len(valid) |-> valid[i].value]
        total_points == Len(interpolated_values)
    IN  [parameter |-> parameter,
         method |-> "idw",
         interpolation_params |->
             [grid_resolution |-> grid_resolution,
              max_distance |-> INTERPOLATION_PARAMS.max_distance,
              power |-> INTERPOLATION_PARAMS.power],
         grid_info |-> [resolution |-> grid_resolution,
                        total_points |-> total_points,
                        interpolated_points |-> Len(valid_values)],
         statistics |->
             IF Len(valid_values) > 0
             THEN [min_value |-> SortAsc(valid_values)[1],
                   max_value |-> MaxOf(valid_values),
                   mean_value |-> SumSeq(valid_values) \div Len(valid_values),
                   std_value |-> StdAboutMean(valid_values)]
             ELSE None,
         stations_used |-> Len(data),
         coverage_percent |->
             (2 * 1000 * Len(valid_values) + total_points) \div (2 * total_points)]

\* spatial_interpolation from "if len(data) < 3" on
InterpolationRows(parameter, grid_resolution, data) ==
    IF Len(data) < 3 THEN InsufficientStations("interpolation", data, 3)
    ELSE CHOOSE r \in
             {InterpolationResults(parameter, grid_resolution, data, interpolated_values) :
                 interpolated_values \in
                     {[i \in 1..Len(grid_points) |-> InterpolatedCell(data, grid_points[i])] :
                         grid_points \in {GridPoints(grid_resolution)}}} : TRUE

\* grid_resolution is the argument, never None here: the default grid of
\* 0.01 degree has 276500 points
spatial_interpolation(m, parameter, grid_resolution, db_ok) ==
    IF ~db_ok THEN [error |-> "error"]
    ELSE CHOOSE r \in {InterpolationRows(parameter, grid_resolution, data) :
                          data \in {GroupedRows(m, parameter, 3)}} : TRUE

\* floor(a * 10 ^ digits / c) for a >= 0, c > 0, by long division
RECURSIVE LongDiv(_, _, _)
LongDiv(a, c, digits) ==
    IF digits = 0 THEN a \div c
    ELSE (a \div c) * (10 ^ digits) + LongDiv((a % c) * 10, c, digits - 1)

\* x / y in 1/10000, towards zero
Ratio4(x, y) ==
    IF x < 0 THEN -LongDiv(-x, y, 4) ELSE LongDiv(x, y, 4)

\* 2 * (1 - stats.norm.cdf(abs(z))) in 1/10000 at the z of the first column
\* (in 1/1000)
NormTwoTail ==
    << <<0, 10000>>, <<500, 6171>>, <<1000, 3173>>, <<1500, 1336>>,
       <<1645, 1000>>, <<1960, 500>>, <<2500, 124>>, <<2576, 100>>,
       <<3000, 27>>, <<3500, 5>>, <<4000, 1>>, <<4056, 0>> >>

\* round(p_value, 4): the tabulated values, joined by straight lines
PValue(z_score) ==
    LET z == Abs(z_score)
        last == Len(NormTwoTail)
    IN  IF z >= NormTwoTail[last][1] THEN 0
        ELSE LET i == CHOOSE l \in 1..(last - 1) :
                          NormTwoTail[l][1] <= z /\ z < NormTwoTail[l + 1][1]
                 lo == NormTwoTail[i]
                 hi == NormTwoTail[i + 1]
             IN  lo[2] - ((lo[2] - hi[2]) * (z - lo[1])) \div (hi[1] - lo[1])

\* p_value < 0.05 before it is rounded: 2 * (1 - cdf(1.960)) = 0.049996
BelowFivePercent(z_score) == Abs(z_score) >= 1960

\* z_score = (morans_i - expected_i) / np.sqrt(variance_i), in 1/1000, with
\* variance_i = (n**2 - 3*n + 3) / ((n-1)*(n-2)*(n-3)*w_sum**2): the division
\* by the float 0.0 (n = 3, or w_sum = 0) gives inf, and a z_score of 0
MoranZScore(n, morans_i, w_sum, denominator) ==
    IF n <= 3 \/ w_sum = 0 THEN 0
    ELSE LET \* (morans_i - expected_i) * (n - 1), in 1/10000
             excess == morans_i * (n - 1) + 10000
             \* sqrt((n-1)(n-2)(n-3) / (n**2 - 3n + 3)), in 1/1000
             root == Isqrt((((n - 1) * (n - 2) * (n - 3)) * 1000000)
                               \div (n * n - 3 * n + 3))
             magnitude == ((((Abs(excess) * (w_sum \div 100)) \div 100) * root)
                              \div ((n - 1) * 10000))
         IN  IF excess < 0 THEN -magnitude ELSE magnitude

\* the text chosen from the sign of morans_i alone
InterpretationBySign(n, morans_i, z_score) ==
    IF morans_i > 0 THEN "Positive spatial autocorrelation - clustered pattern"
    ELSE IF morans_i < 0 THEN "Negative spatial autocorrelation - dispersed pattern"
    ELSE "Random spatial pattern"

\* the text chosen from the sign of morans_i - expected_i and p_value < 0.05
Interpretation(n, morans_i, z_score) ==
    IF morans_i * (n - 1) + 10000 > 0 /\ BelowFivePercent(z_score)
    THEN "Positive spatial autocorrelation - clustered pattern"
    ELSE IF morans_i * (n - 1) + 10000 < 0 /\ BelowFivePercent(z_score)
    THEN "Negative spatial autocorrelation - dispersed pattern"
    ELSE "Random spatial pattern"

\* Moran's I of the values under the weights, morans_i and expected_i in
\* 1/10000, z_score in 1/1000; the deviations are taken from the mean to the
\* nearest 1/100
MoransI(parameter, values, weights) ==
    LET n == Len(values)
        mean_val == (2 * SumSeq(values) + n) \div (2 * n)
        dev == [i \in 1..n |-> values[i] - mean_val]
        \* sum over j of weights[i, j] * (values[j] - mean_val)
        lag == [i \in 1..n |->
                   SumSeq([j \in 1..n |-> weights[i][j] * dev[j]]) \div 10000]
        numerator == SumSeq([i \in 1..n |-> dev[i] * lag[i]])
        denominator == SumSquares(dev)
        w_sum == SumSeq([i \in 1..n |-> SumSeq(weights[i])])
        morans_i == IF denominator > 0 /\ w_sum > 0
                    THEN (n * Ratio4(numerator, denominator) * 10000) \div w_sum
                    ELSE 0
        z_score == MoranZScore(n, morans_i, w_sum, denominator)
    IN  [parameter |-> parameter,
         method |-> "morans_i",
         stations_analyzed |-> n,
         morans_i |-> morans_i,
         expected_i |-> -((20000 + (n - 1)) \div (2 * (n - 1))),
         z_score |-> z_score,
         p_value |-> PValue(z_score),
         interpretation |-> Interpretation(n, morans_i, z_score),
         significant |-> BelowFivePercent(z_score)]

\* spatial_autocorrelation_analysis from "if len(data) < 3" on
AutocorrelationRows(parameter, data) ==
    IF Len(data) < 3 THEN InsufficientStations("autocorrelation", data, 3)
    ELSE CHOOSE r \in
             {MoransI(parameter, [i \in 1..Len(data) |-> data[i].avg_value], weights) :
                 weights \in {calculate_spatial_weights(data, "knn", 3, "earlier")}} :
             TRUE

spatial_autocorrelation_analysis(m, parameter, db_ok) ==
    IF ~db_ok THEN [error |-> "error"]
    ELSE CHOOSE r \in {AutocorrelationRows(parameter, data) :
                          data \in {GroupedRows(m, parameter, 5)}} : TRUE

\* the analysis of the fetched rows, from "if len(data) < 5" on
OutlierRows(parameter, data) ==
    IF Len(data) < 5 THEN InsufficientStations("outlier detection", data, 5)
    ELSE [parameter |-> parameter, method |-> "local_outlier_factor",
          stations_analyzed |-> Len(data)]

detect_spatial_outliers(m, parameter, db_ok) ==
    IF ~db_ok THEN [error |-> "error"]
    ELSE OutlierRows(parameter, GroupedRows(m, parameter, 5))

(***************************************************************************)
(* SpatialStatsEngine.comprehensive_spatial_analysis                       *)
(***************************************************************************)
\* the methods in the order of their calls, and the key each result is
\* stored under
Methods ==
    <<"hotspot_detection", "spatial_clustering", "spatial_autocorrelation",
      "outlier_detection", "spatial_interpolation">>

AnalysisKey(method) ==
    CASE method = "hotspot_detection" -> "hotspot_analysis"
      [] method = "spatial_clustering" -> "clustering_analysis"
      [] method = "spatial_autocorrelation" -> "autocorrelation_analysis"
      [] method = "outlier_detection" -> "outlier_analysis"
      [] method = "spatial_interpolation" -> "interpolation_analysis"

\* results[key] = method_results if 'error' not in method_results
\*                else {'error': method_results.get('error')}
MethodEntry(method_results) ==
    IF "error" \notin DOMAIN method_results THEN method_results
    ELSE [error |-> method_results.error]

\* the methods called: all five "if parameter", else hotspot detection alone
MethodsAttempted(parameter) ==
    IF parameter # NoParameter THEN Methods ELSE SubSeq(Methods, 1, 1)

\* a variant in which the first method to return an error ends the analysis
ComprehensiveResultsStopAtError(parameter, outcome) ==
    LET failed == {i \in 1..Len(outcome) : "error" \in DOMAIN outcome[i].result}
        last == IF failed = {} THEN Len(outcome)
                ELSE CHOOSE i \in failed : \A j \in failed : i <= j
        ran == SubSeq(outcome, 1, last)
        used == SelectSeq(ran, LAMBDA o : "error" \notin DOMAIN o.result)
        methods_used == [i \in 1..Len(used) |-> used[i].method]
    IN  [key \in {AnalysisKey(ran[i].method) : i \in 1..Len(ran)} |->
            MethodEntry((CHOOSE o \in {ran[i] : i \in 1..Len(ran)} :
                            AnalysisKey(o.method) = key).result)]
        @@ [parameter |-> IF parameter # NoParameter THEN parameter ELSE "Risk Scores",
            analysis_date |-> today,
            methods_used |-> methods_used,
            methods_completed |-> Len(methods_used),
            analysis_success |-> Len(methods_used) > 0]

\* the results dict, from what each method called returned: outcome lists
\* the calls in their order, as [method, result]
ComprehensiveResults(parameter, outcome) ==
    LET used == SelectSeq(outcome, LAMBDA o : "error" \notin DOMAIN o.result)
        methods_used == [i \in 1..Len(used) |-> used[i].method]
    IN  [key \in {AnalysisKey(outcome[i].method) : i \in 1..Len(outcome)} |->
            MethodEntry((CHOOSE o \in {outcome[i] : i \in 1..Len(outcome)} :
                            AnalysisKey(o.method) = key).result)]
        @@ [parameter |-> IF parameter # NoParameter THEN parameter ELSE "Risk Scores",
            analysis_date |-> today,
            methods_used |-> methods_used,
            methods_completed |-> Len(methods_used),
            analysis_success |-> Len(methods_used) > 0]

\* what the method returns when its query returns data: eps=0.15 and
\* min_samples=2 for the clustering, significance_level='95%' for the
\* hotspots.  down: the methods whose store access raises
MethodResult(method, parameter, grid_resolution, data, down) ==
    IF method \in down THEN [error |-> "error"]
    ELSE CASE method = "hotspot_detection" -> AnalyseRows(parameter, "95%", data)
           [] method = "spatial_clustering" -> ClusteringRows(parameter, 15, 2, data)
           [] method = "spatial_autocorrelation" -> AutocorrelationRows(parameter, data)
           [] method = "outlier_detection" -> OutlierRows(parameter, data)
           [] method = "spatial_interpolation" ->
                  InterpolationRows(parameter, grid_resolution, data)

(***************************************************************************)
(* The state machine.                                                      *)
(***************************************************************************)
Idle == [op |-> "idle"]

\* the store accesses that may fail during one call: none, or one of its scope
DownSets(scope) == {{}} \cup {{x} : x \in scope}
CountyScope(county_name) ==
    {county_name} \cup {s \in StationSet : CountyOf[s] = county_name}
StateScope == StationSet \cup CountySet \cup {"WA"}

\* county names a caller may ask for: "Ferry" has no monitoring station
CountyNames == CountySet \cup {"Ferry"}

Init ==
    /\ measurements = NoMeasurements
    /\ risk_scores = EmptyBag
    /\ pollution_hotspots = EmptyBag
    /\ spatial_clusters = EmptyBag
    /\ today = 1
    /\ running = Idle
    /\ ret = Idle

\* AQSDataLoader._load_measurements_to_db for the rows of one station and
\* parameter: a row is inserted unless one with its (station_id, parameter,
\* measurement_date) is there already; every batch carries the same dates.
\* A scoring call that has not returned may read the store from now on: its
\* frame notes the contents.
LoadMeasurements(station_id, batch) ==
    /\ measurements[station_id][batch.parameter] = <<>>
    /\ Cardinality(LoadedCells(measurements)) < MaxCells
    /\ measurements' = [measurements EXCEPT ![station_id][batch.parameter] = batch.rows]
    /\ ret' = Idle
    /\ running' = IF running = Idle THEN running
                  ELSE [running EXCEPT !.instants = @ \cup {measurements'}]
    /\ UNCHANGED <<risk_scores, pollution_hotspots, spatial_clusters, today>>

StationRisk(station_id, db_ok) ==
    /\ ret' = [op |-> "station", arg |-> station_id,
               down |-> IF db_ok THEN {} ELSE {station_id},
               out |-> calculate_station_risk_score(measurements, station_id, db_ok)]
    /\ UNCHANGED <<measurements, risk_scores, pollution_hotspots, spatial_clusters, today, running>>

CountyRisk(county_name, down) ==
    /\ ret' = [op |-> "county", arg |-> county_name, down |-> down,
               out |-> calculate_county_risk_score(measurements, county_name, down)]
    /\ UNCHANGED <<measurements, risk_scores, pollution_hotspots, spatial_clusters, today, running>>

StatewideRisk(down) ==
    /\ ret' = [op |-> "statewide", arg |-> "WA", down |-> down,
               out |-> calculate_statewide_risk_summary(measurements, down)]
    /\ UNCHANGED <<measurements, risk_scores, pollution_hotspots, spatial_clusters, today, running>>

Next ==
    \/ \E s \in BatchStations, b \in Batches : LoadMeasurements(s, b)
    \/ \E s \in StationSet, db_ok \in BOOLEAN : StationRisk(s, db_ok)
    \/ \E c \in CountyNames : \E down \in DownSets(CountyScope(c)) :
           CountyRisk(c, down)
    \/ \E down \in DownSets(StateScope) : StatewideRisk(down)

Spec == Init /\ [][Next]_vars

(***************************************************************************)
(* The engines over a loaded store, with the archival writes.              *)
(***************************************************************************)
\* daily readings, the latest first
Readings(values) == [i \in 1..Len(values) |-> Valid(values[i], 1 - i)]

\* measurement tables the ETL has left behind: PM2.5 series of the four
\* stations; in the second one S3 has four VALID readings only
HourlySnapshots ==
    { [NoMeasurements EXCEPT
          !["S1"]["PM2.5 Mass"] = Readings(<<7000, 9000, 8000, 8000, 8000>>),
          !["S2"]["PM2.5 Mass"] = Readings(<<8000, 8000, 8000, 8000, 8000>>),
          !["S3"]["PM2.5 Mass"] = Readings(<<12000, 11000, 13000, 12000, 12000, 12000>>),
          !["S4"]["PM2.5 Mass"] = Readings(<<40000, 38000, 42000, 40000, 40000>>)],
      [NoMeasurements EXCEPT
          !["S1"]["PM2.5 Mass"] = Readings(<<7000, 9000, 8000, 8000, 8000>>),
          !["S2"]["PM2.5 Mass"] = Readings(<<8000, 8000, 8000, 8000, 8000>>),
          !["S3"]["PM2.5 Mass"] = Readings(<<12000, 11000, 13000, 12000>>)
                                      \o <<Suspect(12000, -4), Suspect(12000, -5)>>,
          !["S4"]["PM2.5 Mass"] = Readings(<<40000, 38000, 42000, 40000, 40000>>)] }

InitArchive ==
    /\ measurements \in HourlySnapshots
    /\ risk_scores = EmptyBag
    /\ pollution_hotspots = EmptyBag
    /\ spatial_clusters = EmptyBag
    /\ today = 1
    /\ running = Idle
    /\ ret = Idle

\* save_risk_scores_to_db on the record the caller holds: the result just
\* computed, or the record just saved.  db_ok = FALSE: the statement raises,
\* which the function logs and swallows.
SaveRiskScores(db_ok) ==
    /\ ret.op \in {"station", "county", "save"}
    /\ LET risk_data == IF ret.op = "save" THEN ret.arg.risk_data ELSE ret.out
           location_type == IF ret.op = "save" THEN ret.arg.location_type ELSE ret.op
       IN  /\ db_ok => BagCardinality(risk_scores) < MaxRows
           /\ risk_scores' =
                  IF db_ok
                  THEN InsertRiskScore(risk_scores, RiskScoreRow(risk_data, location_type))
                  ELSE risk_scores
           /\ ret' = [op |-> "save",
                      arg |-> [risk_data |-> risk_data, location_type |-> location_type],
                      down |-> IF db_ok THEN {} ELSE {"WA"},
                      out |-> None]
    /\ UNCHANGED <<measurements, pollution_hotspots, spatial_clusters, today, running>>

\* detect_pollution_hotspots with a _save_hotspot_results that lets the
\* exception of a failed write pass: it reaches "except Exception" of the
\* caller, which returns {'error': ...}
DetectHotspotsSaveUncaught(parameter, significance_level, db_ok, save_ok) ==
    \E results \in {detect_pollution_hotspots(measurements, risk_scores, parameter,
                                              significance_level, db_ok)} :
        \E inserted \in {IF save_ok THEN HotspotArchiveRows(results) ELSE <<>>} :
            /\ BagCardinality(pollution_hotspots) + Len(inserted) <= MaxArchived
            /\ pollution_hotspots' = pollution_hotspots (+) SeqToBag(inserted)
            /\ ret' = [op |-> "hotspots",
                       arg |-> [parameter |-> parameter,
                                significance_level |-> significance_level],
                       down |-> IF db_ok THEN {} ELSE {"WA"},
                       saved |-> save_ok,
                       raised |-> FALSE,
                       out |-> IF save_ok \/ "hotspot_stations" \notin DOMAIN results
                               THEN results ELSE [error |-> "error"]]
            /\ UNCHANGED <<measurements, risk_scores, spatial_clusters, today, running>>

\* detect_pollution_hotspots, _save_hotspot_results included.  save_ok = FALSE:
\* the archival write raises, which _save_hotspot_results logs and swallows.
DetectHotspots(parameter, significance_level, db_ok, save_ok) ==
    \E results \in {detect_pollution_hotspots(measurements, risk_scores, parameter,
                                              significance_level, db_ok)} :
        \E inserted \in {IF save_ok THEN HotspotArchiveRows(results) ELSE <<>>} :
            /\ BagCardinality(pollution_hotspots) + Len(inserted) <= MaxArchived
            /\ pollution_hotspots' = pollution_hotspots (+) SeqToBag(inserted)
            /\ ret' = [op |-> "hotspots",
                       arg |-> [parameter |-> parameter,
                                significance_level |-> significance_level],
                       down |-> IF db_ok THEN {} ELSE {"WA"},
                       saved |-> save_ok,
                       raised |-> FALSE,
                       out |-> results]
            /\ UNCHANGED <<measurements, risk_scores, spatial_clusters, today, running>>

NextArchive ==
    \/ \E s \in StationSet : StationRisk(s, TRUE)
    \/ \E db_ok \in BOOLEAN : SaveRiskScores(db_ok)
    \/ \E parameter \in {NoParameter, "PM2.5 Mass"}, level \in {"90%", "95%"},
          db_ok \in BOOLEAN, save_ok \in BOOLEAN :
           DetectHotspots(parameter, level, db_ok, save_ok)

SpecArchive == InitArchive /\ [][NextArchive]_vars

(***************************************************************************)
(* calculate_spatial_weights on its own: a caller holds a frame of         *)
(* stations, a method and k, and calls it.                                 *)
(***************************************************************************)
\* the arguments a caller is about to pass
Pending(arg) == [op |-> "args", arg |-> arg]

\* the geometry column of a frame: one point per station, all on one y
FrameRow(x) == [longitude |-> x, latitude |-> 4760]

RECURSIVE FramesOfLen(_)
FramesOfLen(n) ==
    IF n = 0 THEN {<<>>}
    ELSE {Append(frame, FrameRow(x)) :
             frame \in FramesOfLen(n - 1), x \in {Longitude[s] : s \in StationSet}}

Frames == UNION {FramesOfLen(n) : n \in 0..MaxFrame}

\* method and k as a caller passes them; k = 4 is the default
WeightsCalls ==
    {[method |-> "knn", k |-> k, ties |-> ties] :
        k \in 0..MaxK, ties \in {"earlier", "later"}}
    \cup {[method |-> "distance", k |-> 4, ties |-> "earlier"]}

InitWeights ==
    /\ measurements = NoMeasurements
    /\ risk_scores = EmptyBag
    /\ pollution_hotspots = EmptyBag
    /\ spatial_clusters = EmptyBag
    /\ today = 1
    /\ running = Idle
    /\ \E frame \in Frames, call \in WeightsCalls :
           ret = Pending([stations_gdf |-> frame, method |-> call.method,
                          k |-> call.k, ties |-> call.ties])

CalculateSpatialWeights ==
    /\ ret.op = "args"
    \* raised: the call ends in an exception that reaches the caller
    /\ ret' = [op |-> "weights", arg |-> ret.arg, down |-> {},
               raised |-> WeightsRaise(ret.arg.stations_gdf, ret.arg.method, ret.arg.k),
               out |-> IF WeightsRaise(ret.arg.stations_gdf, ret.arg.method, ret.arg.k)
                       THEN <<>>
                       ELSE calculate_spatial_weights(ret.arg.stations_gdf,
                                ret.arg.method, ret.arg.k, ret.arg.ties)]
    /\ UNCHANGED <<measurements, risk_scores, pollution_hotspots, spatial_clusters, today, running>>

NextWeights == CalculateSpatialWeights

SpecWeights == InitWeights /\ [][NextWeights]_vars

(***************************************************************************)
(* getis_ord_gi_star on its own: a caller holds a frame of stations with   *)
(* their values and calls it.                                              *)
(***************************************************************************)
\* a frame with its value column, about to be passed
Frame(arg) == [op |-> "frame", arg |-> arg]

GiLongitude == <<-12240, -12236, -12232, -12140, -12140, -12100>>

GiRow(i, avg_value) ==
    [longitude |-> GiLongitude[i], latitude |-> 4760, avg_value |-> avg_value]

RECURSIVE GiFramesOfLen(_)
GiFramesOfLen(n) ==
    IF n = 0 THEN {<<>>}
    ELSE {Append(frame, GiRow(n, v)) :
             frame \in GiFramesOfLen(n - 1), v \in {1000, 5000, 9000}}

GiFrames == UNION {GiFramesOfLen(n) : n \in 0..MaxGiStations}

InitGiStar ==
    /\ measurements = NoMeasurements
    /\ risk_scores = EmptyBag
    /\ pollution_hotspots = EmptyBag
    /\ spatial_clusters = EmptyBag
    /\ today = 1
    /\ running = Idle
    /\ \E frame \in GiFrames, k \in {2, 4}, level \in {"80%", "90%", "95%", "99%"} :
           ret = Frame([stations_gdf |-> frame, k |-> k, ties |-> "earlier",
                        significance_level |-> level])

\* getis_ord_gi_star(stations_gdf, values, weights, significance_level) on
\* the value column of the frame.  k = 4: weights is None and the default
\* matrix is computed; otherwise weights is the knn matrix of the caller.
\* The lookup of an unknown significance_level raises.
GetisOrdGiStar ==
    /\ ret.op = "frame"
    /\ \E rows \in {ret.arg.stations_gdf} :
        \E values \in {[i \in 1..Len(rows) |-> rows[i].avg_value]} :
         \E raised \in {/\ Len(values) >= 3
                        /\ ret.arg.significance_level \notin DOMAIN SIGNIFICANCE_LEVELS} :
          \E weights \in {IF raised \/ Len(values) < 3 THEN <<>>
                          ELSE calculate_spatial_weights(rows, "knn", ret.arg.k,
                                                         ret.arg.ties)} :
            ret' = [op |-> "gi_star", arg |-> ret.arg, down |-> {},
                    raised |-> raised,
                    out |-> IF raised THEN EmptyDict
                            ELSE getis_ord_gi_star(values, weights,
                                                   ret.arg.significance_level)]
    /\ UNCHANGED <<measurements, risk_scores, pollution_hotspots, spatial_clusters, today, running>>

NextGiStar == GetisOrdGiStar

SpecGiStar == InitGiStar /\ [][NextGiStar]_vars

(***************************************************************************)
(* The spatial analyses on a store that holds measurements and the risk    *)
(* scores saved so far.                                                    *)
(***************************************************************************)
\* a table in which stations S1 and S2 alone hold five VALID readings
SparseSnapshot ==
    [NoMeasurements EXCEPT
        !["S1"]["PM2.5 Mass"] = Readings(<<7000, 9000, 8000, 8000, 8000>>),
        !["S2"]["PM2.5 Mass"] = Readings(<<8000, 8000, 8000, 8000, 8000>>),
        !["S3"]["PM2.5 Mass"] = Readings(<<12000, 11000>>)]

DetectorSnapshots == HourlySnapshots \cup {SparseSnapshot, NoMeasurements}

\* environmental_risk_scores as an earlier day left it: empty, or with the
\* row saved for S1 when it had no measurement yet
EarlierSaves ==
    {EmptyBag,
     SetToBag({[RiskScoreRow(StationNoDataResult("S1"), "station")
                   EXCEPT !.calculation_date = today - 1]})}

InitDetectors ==
    /\ measurements \in DetectorSnapshots
    /\ today = 1
    /\ running = Idle
    /\ risk_scores \in EarlierSaves
    /\ pollution_hotspots = EmptyBag
    /\ spatial_clusters = EmptyBag
    /\ ret = Idle

\* what a read-only analysis hands back
Returned(op, arg, db_ok, out) ==
    [op |-> op, arg |-> arg, down |-> IF db_ok THEN {} ELSE {"WA"},
     raised |-> FALSE, out |-> out]

SpatialAutocorrelation(parameter, db_ok) ==
    /\ ret' = Returned("autocorrelation", [parameter |-> parameter], db_ok,
                       spatial_autocorrelation_analysis(measurements, parameter, db_ok))
    /\ UNCHANGED <<measurements, risk_scores, pollution_hotspots, spatial_clusters, today, running>>

SpatialInterpolation(parameter, grid_resolution, db_ok) ==
    /\ ret' = Returned("interpolation",
                       [parameter |-> parameter, grid_resolution |-> grid_resolution],
                       db_ok,
                       spatial_interpolation(measurements, parameter, grid_resolution,
                                             db_ok))
    /\ UNCHANGED <<measurements, risk_scores, pollution_hotspots, spatial_clusters, today, running>>

DetectSpatialOutliers(parameter, db_ok) ==
    /\ ret' = Returned("outliers", [parameter |-> parameter], db_ok,
                       detect_spatial_outliers(measurements, parameter, db_ok))
    /\ UNCHANGED <<measurements, risk_scores, pollution_hotspots, spatial_clusters, today, running>>

\* spatial_clustering_analysis, _save_clustering_results included.
\* given = FALSE: min_samples is None and CLUSTERING_PARAMS supplies it, as it
\* supplies eps; save_ok = FALSE: the archival write raises, which
\* _save_clustering_results logs and swallows.
SpatialClustering(parameter, given, min_samples, db_ok, save_ok) ==
    \E effective \in {IF given THEN min_samples ELSE CLUSTERING_PARAMS.min_samples} :
      \E results \in {spatial_clustering_analysis(measurements, parameter,
                                                   CLUSTERING_PARAMS.eps, effective,
                                                   db_ok)} :
        \E inserted \in {IF save_ok THEN ClusterArchiveRows(results) ELSE <<>>} :
            /\ BagCardinality(spatial_clusters) + Len(inserted) <= MaxClustered
            /\ spatial_clusters' = spatial_clusters (+) SeqToBag(inserted)
            /\ ret' = [op |-> "clustering",
                       arg |-> [parameter |-> parameter, min_samples |-> effective,
                                eps |-> CLUSTERING_PARAMS.eps, given |-> given],
                       down |-> IF db_ok THEN {} ELSE {"WA"},
                       saved |-> save_ok,
                       raised |-> FALSE, out |-> results]
            /\ UNCHANGED <<measurements, risk_scores, pollution_hotspots, today, running>>

\* the frame detect_pollution_hotspots builds from the rows it fetched,
\* handed to getis_ord_gi_star by a caller of its own
FetchFrame(parameter, significance_level) ==
    /\ ret' = Frame([stations_gdf |-> HotspotData(measurements, risk_scores, parameter),
                     k |-> 4, ties |-> "earlier",
                     significance_level |-> significance_level])
    /\ UNCHANGED <<measurements, risk_scores, pollution_hotspots, spatial_clusters, today, running>>

NextDetectors ==
    \/ \E s \in StationSet : StationRisk(s, TRUE)
    \/ \E db_ok \in BOOLEAN : SaveRiskScores(db_ok)
    \/ \E parameter \in {NoParameter, "PM2.5 Mass"}, db_ok \in BOOLEAN :
           DetectHotspots(parameter, "95%", db_ok, TRUE)
    \/ \E parameter \in {"PM2.5 Mass", "SO2"}, db_ok \in BOOLEAN :
           SpatialAutocorrelation(parameter, db_ok)
    \/ \E parameter \in {"PM2.5 Mass", "SO2"}, db_ok \in BOOLEAN :
           SpatialInterpolation(parameter, 100, db_ok)
    \/ \E parameter \in {"PM2.5 Mass", "SO2"}, db_ok \in BOOLEAN :
           DetectSpatialOutliers(parameter, db_ok)
    \/ \E parameter \in {NoParameter, "PM2.5 Mass"}, min_samples \in 0..MaxMinSamples,
          db_ok \in BOOLEAN :
           SpatialClustering(parameter, min_samples > 0, min_samples, db_ok, FALSE)
    \/ \E parameter \in {NoParameter, "PM2.5 Mass"} : FetchFrame(parameter, "95%")
    \/ GetisOrdGiStar

SpecDetectors == InitDetectors /\ [][NextDetectors]_vars

(***************************************************************************)
(* Hotspot detection and clustering with their archival writes.            *)
(***************************************************************************)
InitWrites == InitArchive

NextWrites ==
    \/ \E parameter \in {"PM2.5 Mass", "SO2"}, level \in {"90%", "95%"},
          db_ok \in BOOLEAN, save_ok \in BOOLEAN :
           DetectHotspots(parameter, level, db_ok, save_ok)
    \/ \E parameter \in {"PM2.5 Mass", "SO2"}, min_samples \in {0, 2, 3},
          db_ok \in BOOLEAN, save_ok \in BOOLEAN :
           SpatialClustering(parameter, min_samples > 0, min_samples, db_ok, save_ok)

SpecWrites == InitWrites /\ [][NextWrites]_vars

(***************************************************************************)
(* The analyses on the rows their query returned: data = result.fetchall() *)
(* is drawn from networks of up to MaxSites stations, so that co-located   *)
(* stations, flat values and distant groups occur.                         *)
(***************************************************************************)
SiteIds == <<"F1", "F2", "F3", "F4", "F5", "F6">>

\* the longitudes of a network, in ORDER BY station_id order: stations
\* spread along a line (two of them co-located), all stations on one site,
\* and two distant groups
SiteLayouts ==
    { <<-12240, -12236, -12232, -12140, -12140, -12100>>,
      <<-12240, -12240, -12240, -12240, -12240, -12240>>,
      <<-12240, -12238, -11800, -11798, -12236, -11796>> }

\* the averages a station may show, in 1/100
SiteValues == {1000, 3000, 5000}

SiteRow(layout, i, avg_value) ==
    [station_id |-> SiteIds[i], longitude |-> layout[i], latitude |-> 4760,
     avg_value |-> avg_value, measurement_count |-> 5]

RECURSIVE SiteFramesOfLen(_, _)
SiteFramesOfLen(layout, n) ==
    IF n = 0 THEN {<<>>}
    ELSE {Append(frame, SiteRow(layout, n, v)) :
             frame \in SiteFramesOfLen(layout, n - 1), v \in SiteValues}

SiteFrames ==
    UNION {SiteFramesOfLen(layout, n) : layout \in SiteLayouts, n \in 0..MaxSites}

InitFrames ==
    /\ measurements = NoMeasurements
    /\ risk_scores = EmptyBag
    /\ pollution_hotspots = EmptyBag
    /\ spatial_clusters = EmptyBag
    /\ today = 1
    /\ running = Idle
    /\ \E frame \in SiteFrames :
           ret = Frame([stations_gdf |-> frame, k |-> 4, ties |-> "earlier",
                        significance_level |-> "95%", parameter |-> "PM2.5 Mass"])

\* spatial_autocorrelation_analysis(parameter) whose query returns the frame
AutocorrelationOfFrame ==
    /\ ret.op = "frame"
    /\ ret' = [op |-> "autocorrelation", arg |-> ret.arg, down |-> {},
               raised |-> FALSE,
               out |-> AutocorrelationRows(ret.arg.parameter, ret.arg.stations_gdf)]
    /\ UNCHANGED <<measurements, risk_scores, pollution_hotspots, spatial_clusters, today, running>>

\* the grid spacings a caller passes, in 1/100 of a degree
GridResolutions == {50, 100}

\* spatial_interpolation(parameter, grid_resolution=...) whose query returns
\* the frame
InterpolationOfFrame(grid_resolution) ==
    /\ ret.op = "frame"
    /\ ret' = [op |-> "interpolation",
               arg |-> [stations_gdf |-> ret.arg.stations_gdf,
                        parameter |-> ret.arg.parameter,
                        grid_resolution |-> grid_resolution],
               down |-> {}, raised |-> FALSE,
               out |-> InterpolationRows(ret.arg.parameter, grid_resolution,
                                         ret.arg.stations_gdf)]
    /\ UNCHANGED <<measurements, risk_scores, pollution_hotspots, spatial_clusters, today, running>>

\* spatial_clustering_analysis(parameter, eps, min_samples) whose query
\* returns the frame, _save_clustering_results included
ClusteringOfFrame(eps, min_samples, save_ok) ==
    /\ ret.op = "frame"
    /\ \E results \in {ClusteringRows(ret.arg.parameter, eps, min_samples,
                                       ret.arg.stations_gdf)} :
           /\ spatial_clusters' =
                  spatial_clusters
                      (+) SeqToBag(IF save_ok THEN ClusterArchiveRows(results) ELSE <<>>)
           /\ ret' = [op |-> "clustering",
                      arg |-> [stations_gdf |-> ret.arg.stations_gdf,
                               parameter |-> ret.arg.parameter,
                               min_samples |-> min_samples, eps |-> eps,
                               given |-> TRUE],
                      down |-> {}, saved |-> save_ok, raised |-> FALSE,
                      out |-> results]
    /\ UNCHANGED <<measurements, risk_scores, pollution_hotspots, today, running>>

NextFrames ==
    \/ GetisOrdGiStar
    \/ AutocorrelationOfFrame
    \/ \E eps \in {1, 10}, min_samples \in 1..3, save_ok \in BOOLEAN :
           ClusteringOfFrame(eps, min_samples, save_ok)
    \/ \E grid_resolution \in GridResolutions : InterpolationOfFrame(grid_resolution)

SpecFrames == InitFrames /\ [][NextFrames]_vars

(***************************************************************************)
(* comprehensive_spatial_analysis over a network of stations that each     *)
(* hold five or more recent VALID readings, so that the query of every     *)
(* method returns the frame.                                               *)
(***************************************************************************)
\* the networks whose stations show the lowest or the highest average
ComprehensiveFrames ==
    {frame \in SiteFrames :
        \A i \in 1..Len(frame) : frame[i].avg_value \in {1000, 5000}}

InitComprehensive ==
    /\ measurements = NoMeasurements
    /\ risk_scores = EmptyBag
    /\ pollution_hotspots = EmptyBag
    /\ spatial_clusters = EmptyBag
    /\ today = 1
    /\ running = Idle
    /\ \E frame \in ComprehensiveFrames :
           ret = Frame([stations_gdf |-> frame, k |-> 4, ties |-> "earlier",
                        significance_level |-> "95%", parameter |-> "PM2.5 Mass"])

\* the store accesses that fail during a call: none, those of one method, or
\* all of them
MethodFailures ==
    {{}} \cup {{Methods[i]} : i \in 1..Len(Methods)}
         \cup {{Methods[i] : i \in 1..Len(Methods)}}

\* comprehensive_spatial_analysis(parameter), the two archival writes
\* included.  The code asks for the interpolation at grid_resolution=0.05; the
\* grid is taken at one of GridResolutions.  save_ok = FALSE: the archival
\* writes raise, which the save functions log and swallow.
ComprehensiveOfFrame(parameter, grid_resolution, down, save_ok) ==
    /\ ret.op = "frame"
    /\ \E data \in {ret.arg.stations_gdf}, attempted \in {MethodsAttempted(parameter)} :
         \E outcome \in
               {[i \in 1..Len(attempted) |->
                    [method |-> attempted[i],
                     result |-> MethodResult(attempted[i], parameter, grid_resolution,
                                             data, down)]]} :
             /\ pollution_hotspots' =
                    pollution_hotspots
                        (+) SeqToBag(IF save_ok THEN HotspotArchiveRows(outcome[1].result)
                                     ELSE <<>>)
             /\ spatial_clusters' =
                    spatial_clusters
                        (+) SeqToBag(IF save_ok /\ Len(outcome) > 1
                                     THEN ClusterArchiveRows(outcome[2].result)
                                     ELSE <<>>)
             /\ ret' = [op |-> "comprehensive",
                        arg |-> [stations_gdf |-> data, parameter |-> parameter,
                                 grid_resolution |-> grid_resolution],
                        down |-> down, saved |-> save_ok, raised |-> FALSE,
                        attempted |-> attempted,
                        out |-> ComprehensiveResults(parameter, outcome)]
    /\ UNCHANGED <<measurements, risk_scores, today, running>>

NextComprehensive ==
    \E parameter \in {NoParameter, "PM2.5 Mass"}, down \in MethodFailures,
       save_ok \in BOOLEAN :
        ComprehensiveOfFrame(parameter, 100, down, save_ok)

SpecComprehensive == InitComprehensive /\ [][NextComprehensive]_vars

(***************************************************************************)
(* The scoring and the analyses of a named parameter over stores that hold *)
(* measurements the loader flagged other than VALID.                       *)
(***************************************************************************)
\* the hourly tables with flagged readings beside the VALID ones: a SUSPECT
\* spike at S3, which the sparse table would lift to five readings; flagged
\* readings of today at S1, and an SO2 series at S2 that is flagged throughout
FlaggedSnapshots ==
    { [m EXCEPT !["S3"]["PM2.5 Mass"] = @ \o <<Suspect(90000, -6)>>] :
          m \in HourlySnapshots \cup {SparseSnapshot} }
    \cup
    { [m EXCEPT !["S1"]["PM2.5 Mass"] = <<Suspect(500000, 0)>> \o @,
                !["S2"]["SO2"] = <<Suspect(110000, 0), Suspect(110000, -1),
                                   Suspect(110000, -2), Suspect(110000, -3),
                                   Suspect(110000, -4)>>] :
          m \in HourlySnapshots }

QualitySnapshots == HourlySnapshots \cup FlaggedSnapshots

InitQuality ==
    /\ measurements \in QualitySnapshots
    /\ risk_scores = EmptyBag
    /\ pollution_hotspots = EmptyBag
    /\ spatial_clusters = EmptyBag
    /\ today = 1
    /\ running = Idle
    /\ ret = Idle

NextQuality ==
    \/ \E s \in StationSet, db_ok \in BOOLEAN : StationRisk(s, db_ok)
    \/ \E c \in CountyNames : \E down \in DownSets(CountyScope(c)) :
           CountyRisk(c, down)
    \/ \E down \in DownSets(StateScope) : StatewideRisk(down)
    \/ \E parameter \in {"PM2.5 Mass", "SO2"}, level \in {"90%", "95%"},
          db_ok \in BOOLEAN :
           DetectHotspots(parameter, level, db_ok, FALSE)
    \/ \E parameter \in {"PM2.5 Mass", "SO2"}, db_ok \in BOOLEAN :
           SpatialAutocorrelation(parameter, db_ok)
    \/ \E parameter \in {"PM2.5 Mass", "SO2"}, db_ok \in BOOLEAN :
           SpatialInterpolation(parameter, 100, db_ok)
    \/ \E parameter \in {"PM2.5 Mass", "SO2"}, db_ok \in BOOLEAN :
           DetectSpatialOutliers(parameter, db_ok)
    \/ \E parameter \in {"PM2.5 Mass", "SO2"}, min_samples \in {2, 3},
          db_ok \in BOOLEAN :
           SpatialClustering(parameter, TRUE, min_samples, db_ok, FALSE)

SpecQuality == InitQuality /\ [][NextQuality]_vars

(***************************************************************************)
(* County and statewide scoring statement by statement, while the loader   *)
(* of another process inserts measurements.  Each store access is a        *)
(* statement of its own on a connection of its own                         *)
(* (DatabaseManager.get_connection returns engine.connect()), and sees the *)
(* rows committed by then.  The tables of stations and boundaries stay as  *)
(* they are, so the two queries that list stations and counties are taken  *)
(* together with the statement that follows them.                          *)
(***************************************************************************)
\* what the loader of the other process may insert
ConcurrentBatches ==
    { Batch("PM2.5 Mass", <<Valid(17497, 0), Suspect(90000, -1)>>),
      Batch("PM2.5 Mass", <<Valid(60000, 0), Valid(35000, -1), Stale(99000)>>),
      Batch("SO2", <<Valid(110000, 0)>>) }

InitConcurrent == Init

\* the statewide loop is between two counties
NoCounty == ""

\* the call frame: the county being scored with the stations still to be
\* scored and station_risks so far; for a statewide call also the counties
\* still to be scored and county_risks so far.  instants are the contents the
\* store has had since the call began, down the store accesses that failed.
CountyFrame(county_name, started) ==
    [op |-> "county", county_name |-> county_name,
     pending |-> CountyStations(county_name), station_risks |-> <<>>,
     counties |-> <<>>, county_risks |-> <<>>,
     down |-> {}, instants |-> {started}]

StatewideFrame(started) ==
    [op |-> "statewide", county_name |-> NoCounty,
     pending |-> <<>>, station_risks |-> <<>>,
     counties |-> CountiesWithStations, county_risks |-> <<>>,
     down |-> {}, instants |-> {started}]

\* the call returns out to its caller
CallReturns(out) ==
    /\ ret' = [op |-> running.op,
               arg |-> IF running.op = "county" THEN running.county_name ELSE "WA",
               down |-> running.down, instants |-> running.instants, out |-> out]
    /\ running' = Idle

\* calculate_county_risk_score up to the loop over stations.  db_ok = FALSE:
\* the query that lists the stations raises.
BeginCounty(county_name, db_ok) ==
    /\ running = Idle
    /\ IF ~db_ok
       THEN /\ ret' = [op |-> "county", arg |-> county_name, down |-> {county_name},
                       instants |-> {measurements},
                       out |-> CountyErrorResult(county_name)]
            /\ running' = running
       ELSE IF CountyStations(county_name) = <<>>
       THEN /\ ret' = [op |-> "county", arg |-> county_name, down |-> {},
                       instants |-> {measurements},
                       out |-> CountyNoStationsResult(county_name)]
            /\ running' = running
       ELSE /\ running' = CountyFrame(county_name, measurements)
            /\ ret' = Idle
    /\ UNCHANGED <<measurements, risk_scores, pollution_hotspots, spatial_clusters, today>>

\* calculate_statewide_risk_summary up to the loop over counties.
\* db_ok = FALSE: the query that lists the counties raises.
BeginStatewide(db_ok) ==
    /\ running = Idle
    /\ IF ~db_ok
       THEN /\ ret' = [op |-> "statewide", arg |-> "WA", down |-> {"WA"},
                       instants |-> {measurements}, out |-> [error |-> "error"]]
            /\ running' = running
       ELSE /\ running' = StatewideFrame(measurements)
            /\ ret' = Idle
    /\ UNCHANGED <<measurements, risk_scores, pollution_hotspots, spatial_clusters, today>>

\* the statewide loop calls calculate_county_risk_score for its next county.
\* db_ok = FALSE: the query that lists its stations raises, the county
\* result carries no data_availability and the KeyError ends the call.
EnterCounty(db_ok) ==
    /\ running # Idle
    /\ running.op = "statewide"
    /\ running.county_name = NoCounty
    /\ running.counties # <<>>
    /\ IF ~db_ok
       THEN /\ ret' = [op |-> "statewide", arg |-> "WA",
                       down |-> running.down \cup {Head(running.counties)},
                       instants |-> running.instants, out |-> [error |-> "error"]]
            /\ running' = Idle
       ELSE /\ running' =
                   [running EXCEPT !.county_name = Head(running.counties),
                                   !.pending = CountyStations(Head(running.counties)),
                                   !.station_risks = <<>>,
                                   !.counties = Tail(running.counties)]
            /\ ret' = Idle
    /\ UNCHANGED <<measurements, risk_scores, pollution_hotspots, spatial_clusters, today>>

\* one turn of the loop over stations: calculate_station_risk_score reads the
\* measurements the store holds now.  db_ok = FALSE: its query raises, the
\* result carries no data_availability and the KeyError ends the county call
\* with the error result, which in turn ends a statewide call.
ScoreNextStation(db_ok) ==
    /\ running # Idle
    /\ running.pending # <<>>
    /\ LET station_id == Head(running.pending)
           station_risk == calculate_station_risk_score(measurements, station_id, db_ok)
       IN  IF "data_availability" \notin DOMAIN station_risk
           THEN LET failed == [running EXCEPT !.down = @ \cup {station_id}]
                IN  /\ ret' = [op |-> running.op,
                               arg |-> IF running.op = "county"
                                       THEN running.county_name ELSE "WA",
                               down |-> failed.down, instants |-> running.instants,
                               out |-> IF running.op = "county"
                                       THEN CountyErrorResult(running.county_name)
                                       ELSE [error |-> "error"]]
                    /\ running' = Idle
           ELSE /\ running' =
                       [running EXCEPT
                           !.pending = Tail(@),
                           !.station_risks =
                               IF station_risk.data_availability # "NO_DATA"
                               THEN Append(@, station_risk) ELSE @]
                /\ ret' = Idle
    /\ UNCHANGED <<measurements, risk_scores, pollution_hotspots, spatial_clusters, today>>

\* the county average and the return statement; in a statewide call the
\* county result is appended to county_risks unless it is NO_DATA
LeaveCounty ==
    /\ running # Idle
    /\ running.county_name # NoCounty
    /\ running.pending = <<>>
    /\ LET county_risk == CountyAggregate(running.county_name, running.station_risks)
       IN  IF running.op = "county" THEN CallReturns(county_risk)
           ELSE /\ running' =
                       [running EXCEPT
                           !.county_name = NoCounty,
                           !.station_risks = <<>>,
                           !.county_risks =
                               IF county_risk.data_availability # "NO_DATA"
                               THEN Append(@, county_risk) ELSE @]
                /\ ret' = Idle
    /\ UNCHANGED <<measurements, risk_scores, pollution_hotspots, spatial_clusters, today>>

\* the statewide statistics and the return statement
FinishStatewide ==
    /\ running # Idle
    /\ running.op = "statewide"
    /\ running.county_name = NoCounty
    /\ running.counties = <<>>
    /\ CallReturns(StatewideAggregate(running.county_risks))
    /\ UNCHANGED <<measurements, risk_scores, pollution_hotspots, spatial_clusters, today>>

NextConcurrent ==
    \/ \E s \in BatchStations, b \in ConcurrentBatches : LoadMeasurements(s, b)
    \/ \E c \in CountyNames, db_ok \in BOOLEAN : BeginCounty(c, db_ok)
    \/ \E db_ok \in BOOLEAN : BeginStatewide(db_ok)
    \/ \E db_ok \in BOOLEAN : EnterCounty(db_ok)
    \/ \E db_ok \in BOOLEAN : ScoreNextStation(db_ok)
    \/ LeaveCounty
    \/ FinishStatewide

SpecConcurrent == InitConcurrent /\ [][NextConcurrent]_vars

(***************************************************************************)
(* calculate_pollutant_risk_score on its own, next to the scoring of a     *)
(* station that reports a parameter without a health weight.               *)
(***************************************************************************)
\* the names a caller asks about: the table's, and one the table lacks
CallPollutants == Pollutants \cup {"Lead"}

AveragingPeriods == {"1hour", "8hour", "24hour", "annual"}

\* the reference values of the table, whole units
ReferencePoints ==
    UNION {{REFERENCE_CONCENTRATIONS[p][i].v :
               i \in 2..Len(REFERENCE_CONCENTRATIONS[p])} : p \in Pollutants}

\* concentrations in 1/1000: quarters of every reference, the value next
\* above every reference, a negative and a very large one
Concentrations ==
    {r * 250 * q : r \in ReferencePoints, q \in 0..MaxQuarters}
    \cup {r * 1000 + 1 : r \in ReferencePoints}
    \cup {-2000, 2000000}

\* S1 reports Lead and PM2.5, S2 Lead alone, S3 PM2.5 alone
LeadSnapshot ==
    [NoMeasurements EXCEPT
        !["S1"]["Lead"] = <<Valid(5000, 0)>>,
        !["S1"]["PM2.5 Mass"] = <<Valid(17500, 0), Valid(21000, -1)>>,
        !["S2"]["Lead"] = <<Valid(5000, 0)>>,
        !["S3"]["PM2.5 Mass"] = <<Valid(17500, 0), Valid(21000, -1)>>]

InitPollutant ==
    /\ measurements = LeadSnapshot
    /\ risk_scores = EmptyBag
    /\ pollution_hotspots = EmptyBag
    /\ spatial_clusters = EmptyBag
    /\ today = 1
    /\ running = Idle
    /\ \E pollutant \in CallPollutants, concentration \in Concentrations,
          averaging_period \in AveragingPeriods :
           ret = Pending([pollutant |-> pollutant, concentration |-> concentration,
                          averaging_period |-> averaging_period])

\* calculate_pollutant_risk_score(pollutant, concentration, averaging_period):
\* the call the caller has prepared, then calls for further concentrations of
\* the same pollutant and period
PollutantRisk(concentration) ==
    /\ ret.op \in {"args", "pollutant"}
    /\ "pollutant" \in DOMAIN ret.arg
    /\ ret.op = "args" => concentration = ret.arg.concentration
    /\ ret' = [op |-> "pollutant",
               arg |-> [ret.arg EXCEPT !.concentration = concentration],
               down |-> {}, raised |-> FALSE,
               out |-> calculate_pollutant_risk_score(ret.arg.pollutant, concentration,
                                                      ret.arg.averaging_period)]
    /\ UNCHANGED <<measurements, risk_scores, pollution_hotspots, spatial_clusters, today, running>>

NextPollutant ==
    \/ \E concentration \in Concentrations : PollutantRisk(concentration)
    \/ \E s \in StationSet : StationRisk(s, TRUE)

SpecPollutant == InitPollutant /\ [][NextPollutant]_vars

(***************************************************************************)
(* Vocabulary of the properties.  ret is always the result of a call on    *)
(* the present contents of measurements: a load clears it.                 *)
(***************************************************************************)
RECURSIVE SumOver(_, _)
SumOver(S, f) ==
    IF S = {} THEN 0
    ELSE LET x == CHOOSE y \in S : TRUE
         IN  f[x] + SumOver(S \ {x}, f)

\* the VALID values of a station and parameter inside the date range
ValidValues(station_id, parameter) ==
    LET rows == SelectSeq(measurements[station_id][parameter],
                    LAMBDA r : r.quality_flag = "VALID" /\ today - r.day <= 30)
    IN  [i \in 1..Len(rows) |-> rows[i].value]

\* the parameters of a station that contribute a sub-score
Contributing(station_id) ==
    {p \in ParameterSet \cap Pollutants : ValidValues(station_id, p) # <<>>}

\* the sub-score of a contributing parameter, in 1/10000
SubScore(station_id, parameter) ==
    calculate_pollutant_risk_score(parameter,
        Percentile95(ValidValues(station_id, parameter)), "24hour")

\* the bucket of the threshold table that holds a reported score (1/100)
InBucket(level, score) ==
    CASE level = "LOW" -> 0 <= score /\ score < 2500
      [] level = "MODERATE" -> 2500 <= score /\ score < 5000
      [] level = "HIGH" -> 5000 <= score /\ score < 7500
      [] level = "VERY_HIGH" -> 7500 <= score /\ score < 9000
      [] level = "HAZARDOUS" -> 9000 <= score /\ score <= 10000
      [] OTHER -> FALSE

StationReturned == ret.op = "station"
CountyReturned == ret.op = "county"
StatewideReturned == ret.op = "statewide"

\* C1: in every station and county result the risk_level is the bucket of the
\* threshold table that contains the risk_score of the same result.
C1_LevelMatchesScore ==
    (StationReturned \/ CountyReturned)
        => InBucket(ret.out.risk_level, ret.out.risk_score)

\* C2: every per-parameter score and every station composite score lies in
\* [0, 100], zero and negative readings included.
C2_ScoreInRange ==
    StationReturned =>
        /\ 0 <= ret.out.risk_score /\ ret.out.risk_score <= 10000
        /\ \A p \in DOMAIN ret.out.components :
               /\ 0 <= ret.out.components[p].risk_score
               /\ ret.out.components[p].risk_score <= 10000

\* the stations of a county that can be scored and have a sub-score
RemainingWithData(county_name, down) ==
    {s \in StationSet : /\ CountyOf[s] = county_name
                        /\ s \notin down
                        /\ Contributing(s) # {}}

\* the reported score of a station that can be scored (1/100)
ReportedScore(station_id) ==
    calculate_station_risk_score(measurements, station_id, TRUE).risk_score

\* the mean, rounded to 1/100, of the reported scores of a set of stations
MeanReported(S) ==
    Round2((SumOver(S, [s \in S |-> ReportedScore(s)]) * 100) \div Cardinality(S))

\* C3: when scoring one station of a county fails, the county call still
\* returns the mean over the remaining stations that have data, the failing
\* station left out of the denominator.
C3_StationFailureIsolated ==
    (/\ CountyReturned
     /\ ret.arg \notin ret.down
     /\ \E s \in ret.down : s \in StationSet /\ CountyOf[s] = ret.arg
     /\ RemainingWithData(ret.arg, ret.down) # {})
        => /\ "error" \notin DOMAIN ret.out
           /\ ret.out.station_count = Cardinality(RemainingWithData(ret.arg, ret.down))
           /\ ret.out.risk_score = MeanReported(RemainingWithData(ret.arg, ret.down))

\* C4: a station for which no parameter contributed a sub-score is left out
\* of its county's station list, mean and station_count, and a county without
\* such a station is left out of the statewide rankings and average.
C4_NoDataNeverCountedAsZero ==
    /\ (CountyReturned /\ "stations" \in DOMAIN ret.out) =>
           /\ \A i \in 1..Len(ret.out.stations) :
                  Contributing(ret.out.stations[i].station_id) # {}
           /\ "station_count" \in DOMAIN ret.out =>
                  ret.out.station_count =
                      Cardinality(RemainingWithData(ret.arg, {}))
    /\ (StatewideReturned /\ "county_rankings" \in DOMAIN ret.out) =>
           /\ \A i \in 1..Len(ret.out.county_rankings) :
                  RemainingWithData(ret.out.county_rankings[i].county, {}) # {}
           /\ ret.out.counties_analyzed =
                  Cardinality({c \in CountySet : RemainingWithData(c, {}) # {}})

\* C5: data_availability follows the number of parameters that contributed a
\* sub-score: NO_DATA with score 0 for none, LIMITED for one, GOOD for two or
\* more.
C5_AvailabilityTag ==
    (StationReturned /\ ret.down = {}) =>
        LET n == Cardinality(Contributing(ret.arg))
        IN  /\ "data_availability" \in DOMAIN ret.out
            /\ n = 0 => /\ ret.out.data_availability = "NO_DATA"
                        /\ ret.out.risk_score = 0
            /\ n = 1 => ret.out.data_availability = "LIMITED"
            /\ n >= 2 => ret.out.data_availability = "GOOD"

\* C6: the station composite is sum(score_p * weight_p) / sum(weight_p) over
\* exactly the parameters with VALID data and a known health weight; scores 80
\* and 40 with weights 1.0 and 0.5 give 66.67.
C6_CompositeIsWeightedAverage ==
    /\ (StationReturned /\ ret.down = {} /\ Contributing(ret.arg) # {}) =>
           LET P == Contributing(ret.arg)
               num == SumOver(P, [p \in P |->
                          SubScore(ret.arg, p) * HEALTH_WEIGHTS[p]])
               den == SumOver(P, [p \in P |-> HEALTH_WEIGHTS[p]])
           IN  /\ ret.out.risk_score = Round2(num \div den)
               /\ DOMAIN ret.out.components = P
    /\ Round2(CompositeRisk(800000 * 10 + 400000 * 5, 10 + 5)) = 6667

\* a station was scored from two parameters whose sub-scores differ
C6_Witness ==
    /\ StationReturned /\ ret.down = {}
    /\ Cardinality(Contributing(ret.arg)) = 2
    /\ \E p, q \in Contributing(ret.arg) :
           SubScore(ret.arg, p) # SubScore(ret.arg, q)
    /\ ret.out.risk_score > 0

\* the stations of a county that have VALID measurements inside the date range
StationsWithData(county_name) ==
    {s \in StationSet :
        /\ CountyOf[s] = county_name
        /\ \E p \in ParameterSet : ValidValues(s, p) # <<>>}

CountiesWithData == {c \in CountySet : StationsWithData(c) # {}}

\* C7: the county risk_score is the plain mean of the composite scores of
\* exactly its stations that have data, and the statewide average_risk the
\* plain mean of the scores of exactly the counties that have data.
C7_PlainMean ==
    /\ (CountyReturned /\ ret.arg \notin ret.down
            /\ StationsWithData(ret.arg) # {}) =>
           ret.out.risk_score = MeanReported(StationsWithData(ret.arg))
    /\ (StatewideReturned /\ "WA" \notin ret.down /\ CountiesWithData # {}) =>
           /\ "statewide_summary" \in DOMAIN ret.out
           /\ ret.out.statewide_summary.average_risk =
                  Round2((SumOver(CountiesWithData, [c \in CountiesWithData |->
                      MeanReported(StationsWithData(c))]) * 100)
                          \div Cardinality(CountiesWithData))


(***************************************************************************)
(* Properties of the archive and of hotspot detection (SpecArchive).       *)
(***************************************************************************)
HotspotsReturned == ret.op = "hotspots"
SaveReturned == ret.op = "save"

\* what the call that has returned gives when environmental_risk_scores is empty
FromMeasurementsAlone ==
    detect_pollution_hotspots(measurements, EmptyBag, ret.arg.parameter,
                              ret.arg.significance_level, ret.down = {})

\* what the call that has returned gives when no measurement is stored
FromRiskScoresAlone ==
    detect_pollution_hotspots(NoMeasurements, risk_scores, ret.arg.parameter,
                              ret.arg.significance_level, ret.down = {})

\* C8 as claimed: whatever the results store holds, detect_pollution_hotspots
\* returns what it returns on the same measurements and arguments with an
\* empty results store.
C8_OutputFromSnapshotOnly ==
    HotspotsReturned => ret.out = FromMeasurementsAlone

\* C8 amended: for a named parameter the output is a function of the
\* measurements and the arguments only; with parameter None it is a function
\* of the station rows of environmental_risk_scores and the arguments.  The
\* table pollution_hotspots the detector writes is never an input.
C8_NamedParameterFromSnapshotOnly ==
    HotspotsReturned =>
        IF ret.arg.parameter # NoParameter
        THEN ret.out = FromMeasurementsAlone
        ELSE ret.out = FromRiskScoresAlone

\* a named-parameter analysis that found a hot spot, returned while both
\* results tables hold rows the other branch would analyse
C8_Witness ==
    /\ HotspotsReturned
    /\ ret.arg.parameter = "PM2.5 Mass"
    /\ "hotspot_stations" \in DOMAIN ret.out
    /\ Len(ret.out.hotspot_stations) > 0
    /\ Len(RiskScoreRows(risk_scores)) >= 3
    /\ pollution_hotspots # EmptyBag

C10_OneRowPerKey ==
    \A r1, r2 \in BagToSet(risk_scores) :
        SameKey(r1, r2) => (r1 = r2 /\ CopiesIn(r1, risk_scores) = 1)

\* C10 amended: the table is append-only.  Every save_risk_scores_to_db call
\* that succeeds adds one row for its record, also when a row with the same
\* key is there already, and no step removes or changes a row.
C10_EverySaveAppends ==
    [][/\ risk_scores \sqsubseteq risk_scores'
       /\ (ret'.op = "save" /\ ret'.down = {}) =>
              risk_scores' = risk_scores (+)
                  SetToBag({RiskScoreRow(ret'.arg.risk_data, ret'.arg.location_type)})]_vars

\* the record just saved is in the table twice
C10_Witness ==
    /\ SaveReturned
    /\ ret.down = {}
    /\ CopiesIn(RiskScoreRow(ret.arg.risk_data, ret.arg.location_type), risk_scores) >= 2

(***************************************************************************)
(* Spatial weights.                                                        *)
(***************************************************************************)
WeightsReturned == ret.op = "weights" /\ ~ret.raised

\* a row of a matrix in 1/10000 sums to 1: each entry is cut to a whole
\* number of 1/10000, so the sum falls short by less than one unit an entry
SumsToOne(row) == 10000 - Len(row) < SumSeq(row) /\ SumSeq(row) <= 10000

AllZero(row) == \A j \in 1..Len(row) : row[j] = 0

\* station i of the frame has a station at a distance > 0 from it
HasDistantStation(frame, i) ==
    \E j \in 1..Len(frame) : frame[j].longitude # frame[i].longitude

\* C11: for both methods, every row of the matrix calculate_spatial_weights
\* returns sums to 1 or is all-zero; under the distance method, and under
\* knn when k reaches every other station, the all-zero rows are those of
\* the stations with no station at a positive distance
C11_RowsSumToOneOrZero ==
    WeightsReturned =>
        \A i \in 1..Len(ret.out) :
            /\ SumsToOne(ret.out[i]) \/ AllZero(ret.out[i])
            /\ (ret.arg.method = "distance" \/ ret.arg.k + 1 >= Len(ret.out)) =>
                   (AllZero(ret.out[i]) <=> ~HasDistantStation(ret.arg.stations_gdf, i))

\* both kinds of row in one matrix of the knn method: two stations at one
\* place and a third one that lists only one of them
C11_Witness ==
    /\ WeightsReturned /\ ret.arg.method = "knn" /\ Len(ret.out) = 3
    /\ \E i, j \in 1..Len(ret.out) :
           /\ SumsToOne(ret.out[i]) /\ ~AllZero(ret.out[i])
           /\ AllZero(ret.out[j]) /\ HasDistantStation(ret.arg.stations_gdf, j)

\* C12 as stated: the knn matrix returned is symmetric (to within the unit
\* the entries are cut to)
C12_KnnMatrixSymmetric ==
    (WeightsReturned /\ ret.arg.method = "knn") =>
        \A i, j \in 1..Len(ret.out) : Abs(ret.out[i][j] - ret.out[j][i]) <= 1

\* C12 amended: the knn matrix links stations symmetrically (W[i][j] > 0
\* exactly when W[j][i] > 0) and W[i][j] = W[j][i] wherever the rows of i
\* and j were divided by the same sum; the diagonal is zero
C12_KnnLinksSymmetric ==
    (WeightsReturned /\ ret.arg.method = "knn") =>
        LET raw == RawWeights(ret.arg.stations_gdf, "knn", ret.arg.k, ret.arg.ties)
        IN  \A i, j \in 1..Len(ret.out) :
                /\ ret.out[i][j] > 0 <=> ret.out[j][i] > 0
                /\ ret.out[i][i] = 0
                /\ SumSeq(raw[i]) = SumSeq(raw[j]) => ret.out[i][j] = ret.out[j][i]

\* a station whose nearest neighbour has a nearer neighbour of its own, in a
\* matrix whose entries differ across the diagonal
C12_Witness ==
    /\ WeightsReturned /\ ret.arg.method = "knn" /\ ret.arg.k = 1
    /\ \E i, j \in 1..Len(ret.out) :
           /\ ret.out[i][j] > 0 /\ ret.out[j][i] > 0
           /\ ret.out[i][j] - ret.out[j][i] > 1
           /\ j \in KNeighbors(ret.arg.stations_gdf, i, 1, ret.arg.ties)
           /\ i \notin KNeighbors(ret.arg.stations_gdf, j, 1, ret.arg.ties)

(***************************************************************************)
(* Too few stations.                                                       *)
(***************************************************************************)
\* the rows the store supplied to the analysis that has just returned
SuppliedRows ==
    CASE ret.op = "hotspots" ->
             HotspotData(measurements, risk_scores, ret.arg.parameter)
      [] ret.op = "autocorrelation" ->
             GroupedRows(measurements, ret.arg.parameter, 5)
      [] ret.op = "interpolation" ->
             GroupedRows(measurements, ret.arg.parameter, 3)
      [] ret.op = "outliers" ->
             GroupedRows(measurements, ret.arg.parameter, 5)
      [] ret.op = "clustering" ->
             GroupedRows(measurements, ret.arg.parameter, 5)
      [] ret.op = "gi_star" -> ret.arg.stations_gdf

SuppliedStations ==
    {SuppliedRows[i].station_id : i \in 1..Len(SuppliedRows)}

\* the call ended in an exception that reached its caller
DidRaise == "raised" \in DOMAIN ret /\ ret.raised

\* the analysis reached the store and came back
AnalysisReturned(ops) == ret.op \in ops /\ ret.down = {}

IsInsufficientData(out) ==
    /\ "error" \in DOMAIN out
    /\ out.error \in {"Insufficient data",
                      "Insufficient stations for autocorrelation",
                      "Insufficient stations for interpolation",
                      "Insufficient stations for outlier detection",
                      "Insufficient stations for clustering"}

\* C13: with fewer stations than the minimum of the method (3 for hotspot
\* detection, Moran's I, interpolation and Gi*, 5 for outlier detection) the
\* operation returns its insufficient-data result (getis_ord_gi_star an
\* empty one) and does not raise
C13_TooFewStationsReported ==
    /\ (/\ AnalysisReturned({"hotspots", "autocorrelation", "interpolation"})
        /\ Cardinality(SuppliedStations) < 3)
           => (~DidRaise /\ IsInsufficientData(ret.out))
    /\ (AnalysisReturned({"outliers"}) /\ Cardinality(SuppliedStations) < 5)
           => (~DidRaise /\ IsInsufficientData(ret.out))
    /\ (AnalysisReturned({"gi_star"}) /\ Cardinality(SuppliedStations) < 3)
           => (~DidRaise /\ ret.out = EmptyDict)

\* C14 as stated: spatial_clustering_analysis given fewer than 5 stations
\* returns its insufficient-data result, whatever min_samples is
C14_FewerThanFiveInsufficient ==
    (AnalysisReturned({"clustering"}) /\ Cardinality(SuppliedStations) < 5) =>
        IsInsufficientData(ret.out)

\* C14 amended: the result is the insufficient-data one exactly when the
\* stations are fewer than min_samples (2 when none is given), and it then
\* names min_samples as the number required
C14_FewerThanMinSamplesInsufficient ==
    AnalysisReturned({"clustering"}) =>
        /\ ~DidRaise
        /\ ~ret.arg.given => ret.arg.min_samples = 2
        /\ IsInsufficientData(ret.out) <=>
               Cardinality(SuppliedStations) < ret.arg.min_samples
        /\ IsInsufficientData(ret.out) =>
               /\ ret.out.min_required = ret.arg.min_samples
               /\ ret.out.stations = Cardinality(SuppliedStations)

\* clustering went ahead on four stations under the default min_samples,
\* for one parameter
C14_Witness ==
    /\ AnalysisReturned({"clustering"}) /\ ~ret.arg.given
    /\ ret.arg.parameter = "PM2.5 Mass"
    /\ Cardinality(SuppliedStations) = 4
    /\ ~IsInsufficientData(ret.out)
    /\ ret.out.stations_analyzed = 4

(***************************************************************************)
(* The store out of reach.                                                 *)
(***************************************************************************)
\* C15: when the store cannot be reached calculate_station_risk_score hands
\* back a result with an 'error' field, which its no-data result
\* (data_availability = NO_DATA) never has; a call that reaches the store
\* reports no error
C15_ErrorDistinctFromNoData ==
    StationReturned =>
        /\ ~DidRaise
        /\ ret.down # {} =>
               /\ "error" \in DOMAIN ret.out
               /\ "data_availability" \in DOMAIN ret.out =>
                      ret.out.data_availability # "NO_DATA"
        /\ ret.down = {} => "error" \notin DOMAIN ret.out
        /\ (ret.down = {} /\ \A p \in ParameterSet : ValidValues(ret.arg, p) = <<>>) =>
               /\ "data_availability" \in DOMAIN ret.out
               /\ ret.out.data_availability = "NO_DATA"

\* the store was out of reach for a station that has measurements
C15_Witness ==
    /\ StationReturned /\ ret.down # {}
    /\ \E p \in ParameterSet : ValidValues(ret.arg, p) # <<>>
    /\ "error" \in DOMAIN ret.out

(***************************************************************************)
(* The score of one pollutant.  Scores are in 1/10000 of a point,          *)
(* concentrations in 1/1000 of a unit, health weights in 1/10.             *)
(***************************************************************************)
PollutantReturned == ret.op = "pollutant"

\* the pollutants of the health-weight table, written out
WeightedNames == {"PM2.5 Mass", "PM10 Mass", "Ozone", "SO2", "NO2", "CO"}

\* C16: calculate_pollutant_risk_score returns 0.0 for a pollutant that has
\* no health weight, whatever the concentration, and a station's composite
\* is the weighted average over its weighted parameters alone: a parameter
\* without a weight adds nothing to either sum and has no component
C16_UnknownPollutantScoresZero ==
    \* every weighted pollutant has a reference: none is left without one
    /\ \A p \in WeightedNames : RefValues(REFERENCE_CONCENTRATIONS[p]) # <<>>
    /\ DOMAIN HEALTH_WEIGHTS = WeightedNames
    /\ (PollutantReturned /\ ret.arg.pollutant \notin WeightedNames) =>
           (ret.out = 0 /\ ~DidRaise)
    /\ (StationReturned /\ ret.down = {}) =>
           LET P == {p \in ParameterSet \cap WeightedNames :
                        ValidValues(ret.arg, p) # <<>>}
               num == SumOver(P, [p \in P |->
                          SubScore(ret.arg, p) * HEALTH_WEIGHTS[p]])
               den == SumOver(P, [p \in P |-> HEALTH_WEIGHTS[p]])
           IN  /\ ret.out.risk_score = IF P = {} THEN 0 ELSE Round2(num \div den)
               /\ DOMAIN ret.out.components = P

\* a station that reports Lead next to a weighted parameter was scored
C16_Witness ==
    /\ StationReturned /\ ret.down = {}
    /\ ValidValues(ret.arg, "Lead") # <<>>
    /\ ValidValues(ret.arg, "PM2.5 Mass") # <<>>
    /\ ret.out.risk_score > 0

\* the reference each request resolves to, worked out from the table by the
\* rule: the period's entry, else 'annual', else the first listed value
ExpectedReference(pollutant, averaging_period) ==
    CASE pollutant = "PM2.5 Mass" -> IF averaging_period = "24hour" THEN 35 ELSE 12
      [] pollutant = "PM10 Mass" -> 150
      [] pollutant = "Ozone" -> 70
      [] pollutant = "SO2" -> 75
      [] pollutant = "NO2" -> IF averaging_period = "1hour" THEN 100 ELSE 53
      [] pollutant = "CO" -> IF averaging_period = "8hour" THEN 9 ELSE 35

\* C17: the reference is the requested period's entry, else the 'annual'
\* entry, else the first listed value: a concentration equal to that
\* reference scores 50 * weight and half of it 25 * weight
C17_ReferenceResolution ==
    (PollutantReturned /\ ret.arg.pollutant \in WeightedNames) =>
        LET reference == ExpectedReference(ret.arg.pollutant, ret.arg.averaging_period)
            weight == HEALTH_WEIGHTS[ret.arg.pollutant]
        IN  /\ ret.arg.concentration = 1000 * reference => ret.out = 50000 * weight
            /\ ret.arg.concentration = 500 * reference => ret.out = 25000 * weight

\* NO2 asked for its 24-hour score at its annual reference
C17_Witness ==
    /\ PollutantReturned /\ ret.arg.pollutant = "NO2"
    /\ ret.arg.averaging_period = "24hour" /\ ret.arg.concentration = 53000
    /\ ret.out = 200000

\* C18: for a pollutant and period the score never falls when the
\* concentration rises, and from the reference to any concentration above
\* it the score rises by no more than the steepest slope of the curve allows
\* (100 points a reference, times the weight)
C18_MonotoneNoJump ==
    [][(/\ PollutantReturned /\ ret'.op = "pollutant"
        /\ ret.arg.pollutant \in WeightedNames
        /\ ret'.arg.concentration >= ret.arg.concentration) =>
           LET reference == ExpectedReference(ret.arg.pollutant, ret.arg.averaging_period)
               weight == HEALTH_WEIGHTS[ret.arg.pollutant]
               rise == ret'.arg.concentration - ret.arg.concentration
           IN  /\ ret'.out >= ret.out
               /\ (ret.arg.concentration = 1000 * reference /\ rise < 1000 * reference) =>
                      (ret'.out - ret.out) * reference <= 100 * rise * weight + 500
       ]_vars

\* the score at the value next above the reference
C18_Witness ==
    /\ PollutantReturned /\ ret.arg.pollutant \in WeightedNames
    /\ ret.arg.concentration =
           1000 * ExpectedReference(ret.arg.pollutant, ret.arg.averaging_period) + 1
    /\ ret.out >= 50000 * HEALTH_WEIGHTS[ret.arg.pollutant]

\* C19: at or below the reference the score is 50 * (concentration /
\* reference) * weight (to within the two units lost in the divisions),
\* 50 * weight at the reference, and 50.0 for PM2.5 at 35.0 over 24 hours
C19_LinearBelowReference ==
    /\ (PollutantReturned /\ ret.arg.pollutant \in WeightedNames) =>
           LET reference == ExpectedReference(ret.arg.pollutant, ret.arg.averaging_period)
               weight == HEALTH_WEIGHTS[ret.arg.pollutant]
               exact == 50 * ret.arg.concentration * weight
           IN  /\ ret.arg.concentration <= 1000 * reference =>
                      /\ ret.out * reference <= exact
                      /\ exact - ret.out * reference < 2 * reference
               /\ ret.arg.concentration = 1000 * reference => ret.out = 50000 * weight
    /\ (/\ PollutantReturned /\ ret.arg.pollutant = "PM2.5 Mass"
        /\ ret.arg.averaging_period = "24hour" /\ ret.arg.concentration = 35000) =>
           ret.out = 500000

\* PM2.5 at 35.0 against its 24-hour reference
C19_Witness ==
    /\ PollutantReturned /\ ret.arg.pollutant = "PM2.5 Mass"
    /\ ret.arg.averaging_period = "24hour" /\ ret.arg.concentration = 35000
    /\ ret.out = 500000

(***************************************************************************)
(* Classification by Gi*.  z-scores and critical values in 1/1000.         *)
(***************************************************************************)
\* getis_ord_gi_star returned its statistics
GiStarReturned == ret.op = "gi_star" /\ ~ret.raised /\ ret.out # EmptyDict

\* C20: every station of the frame gets exactly one classification, from
\* its z-score and the critical value of the requested confidence (90%:
\* 1.645, 95%: 1.96, 99%: 2.576): HOT_SPOT iff z > critical, COLD_SPOT iff
\* z < -critical, NOT_SIGNIFICANT otherwise
C20_ClassificationByCriticalValue ==
    GiStarReturned =>
        LET critical == CASE ret.arg.significance_level = "90%" -> 1645
                          [] ret.arg.significance_level = "95%" -> 1960
                          [] ret.arg.significance_level = "99%" -> 2576
            z == ret.out.z_scores
            class == ret.out.classifications
        IN  /\ ret.out.critical_value = critical
            /\ DOMAIN class = 1..Len(ret.arg.stations_gdf)
            /\ DOMAIN z = DOMAIN class
            /\ \A i \in DOMAIN class :
                   /\ class[i] \in {"HOT_SPOT", "COLD_SPOT", "NOT_SIGNIFICANT"}
                   /\ class[i] = "HOT_SPOT" <=> z[i] > critical
                   /\ class[i] = "COLD_SPOT" <=> z[i] < -critical

\* a frame with a hot spot, a cold spot and a station that is neither
C20_Witness ==
    /\ GiStarReturned
    /\ \E i, j, l \in DOMAIN ret.out.classifications :
           /\ ret.out.classifications[i] = "HOT_SPOT"
           /\ ret.out.classifications[j] = "COLD_SPOT"
           /\ ret.out.classifications[l] = "NOT_SIGNIFICANT"

(***************************************************************************)
(* Gi* on three stations.                                                  *)
(***************************************************************************)
\* three stations in a line, their values 10, 50 and 90, weights knn k = 2
ThreeInALine ==
    /\ GiStarReturned /\ ret.arg.k = 2
    /\ Len(ret.arg.stations_gdf) = 3
    /\ [i \in 1..3 |-> ret.arg.stations_gdf[i].avg_value] = <<1000, 5000, 9000>>
    /\ ret.arg.stations_gdf[2].longitude - ret.arg.stations_gdf[1].longitude
           = ret.arg.stations_gdf[3].longitude - ret.arg.stations_gdf[2].longitude

\* C22 as stated: of three stations in a line with values 10, 50 and 90 and
\* knn weights of k = 2, the station with value 90 is a HOT_SPOT at 90%
\* confidence and NOT_SIGNIFICANT at 99%
C22_HotAtNinetyPercent ==
    ThreeInALine =>
        /\ ret.arg.significance_level = "90%" =>
               ret.out.classifications[3] = "HOT_SPOT"
        /\ ret.arg.significance_level = "99%" =>
               ret.out.classifications[3] = "NOT_SIGNIFICANT"

\* C22 amended: with the diagonal of the weight row set to 1 the station
\* with value 90 gets z = 1.414, the largest z three stations can give
\* (sqrt(n - 1)), below every critical value: it is NOT_SIGNIFICANT at 90%,
\* 95% and 99%, as is every station of every frame of three
C22_ThreeStationsNotSignificant ==
    /\ ThreeInALine =>
           /\ ret.out.z_scores[3] >= 1410 /\ ret.out.z_scores[3] <= 1415
           /\ ret.out.z_scores[1] = -ret.out.z_scores[3]
           /\ ret.out.classifications[3] = "NOT_SIGNIFICANT"
    /\ (GiStarReturned /\ Len(ret.arg.stations_gdf) = 3) =>
           \A i \in 1..3 :
               /\ Abs(ret.out.z_scores[i]) <= 1415
               /\ ret.out.classifications[i] = "NOT_SIGNIFICANT"

\* the three stations analysed at 90% confidence
C22_Witness ==
    /\ ThreeInALine /\ ret.arg.significance_level = "90%"
    /\ ret.out.z_scores[3] > 0
    /\ ret.out.classifications = <<"NOT_SIGNIFICANT", "NOT_SIGNIFICANT", "NOT_SIGNIFICANT">>

(***************************************************************************)
(* Moran's I.  morans_i and expected_i in 1/10000, z_score in 1/1000.      *)
(***************************************************************************)
\* the rows the autocorrelation analysis that has just returned was given
MoranRows ==
    IF "stations_gdf" \in DOMAIN ret.arg THEN ret.arg.stations_gdf
    ELSE GroupedRows(measurements, ret.arg.parameter, 5)

MoranReturned ==
    /\ ret.op = "autocorrelation" /\ ret.down = {}
    /\ Len(MoranRows) >= 3

\* every station shows the same value
FlatValues(rows) == \A i, j \in 1..Len(rows) : rows[i].avg_value = rows[j].avg_value

\* every station stands on the same site: no weight is positive
OneSite(rows) == \A i, j \in 1..Len(rows) : rows[i].longitude = rows[j].longitude

\* C21: degenerate inputs give the defined defaults and no error: in
\* getis_ord_gi_star flat values give every station z = 0 and
\* NOT_SIGNIFICANT; in spatial_autocorrelation_analysis flat values or a
\* zero weight sum give Moran's I = 0 and z = 0
C21_DegenerateGivesZero ==
    /\ (GiStarReturned /\ FlatValues(ret.arg.stations_gdf)) =>
           \A i \in DOMAIN ret.out.z_scores :
               /\ ret.out.z_scores[i] = 0
               /\ ret.out.classifications[i] = "NOT_SIGNIFICANT"
    /\ (MoranReturned /\ (FlatValues(MoranRows) \/ OneSite(MoranRows))) =>
           /\ ~DidRaise
           /\ "error" \notin DOMAIN ret.out
           /\ ret.out.morans_i = 0
           /\ ret.out.z_score = 0

\* what the code keeps of it: the defaults of Gi*, Moran's I = 0, and z = 0
\* where the weight sum is zero or the stations are three
DegenerateDefaultsKept ==
    /\ (GiStarReturned /\ FlatValues(ret.arg.stations_gdf)) =>
           \A i \in DOMAIN ret.out.z_scores :
               /\ ret.out.z_scores[i] = 0
               /\ ret.out.classifications[i] = "NOT_SIGNIFICANT"
    /\ (MoranReturned /\ (FlatValues(MoranRows) \/ OneSite(MoranRows))) =>
           /\ ~DidRaise
           /\ "error" \notin DOMAIN ret.out
           /\ ret.out.morans_i = 0
           /\ (OneSite(MoranRows) \/ Len(MoranRows) = 3) => ret.out.z_score = 0

\* -1 / (n - 1) to four decimals
ExpectedI(n) ==
    CASE n = 3 -> -5000 [] n = 4 -> -3333 [] n = 5 -> -2500
      [] n = 6 -> -2000 [] n = 7 -> -1667

\* C23: the interpretation follows from the sign of I - expected_I and from
\* the significance alone: clustered iff I > expected_I and p < 0.05,
\* dispersed iff I < expected_I and p < 0.05, random otherwise; significant
\* iff p < 0.05 (|z| >= 1.960; the rounded p_value is then at most 0.05, and
\* at least 0.05 otherwise); expected_I = -1/(n-1)
C23_InterpretationFromSignAndSignificance ==
    MoranReturned =>
        LET n == Len(MoranRows)
            above == ret.out.morans_i * (n - 1) > -10000
            below == ret.out.morans_i * (n - 1) < -10000
            text == ret.out.interpretation
        IN  /\ ret.out.stations_analyzed = n
            /\ ret.out.expected_i = ExpectedI(n)
            /\ ret.out.significant <=> Abs(ret.out.z_score) >= 1960
            /\ ret.out.significant => ret.out.p_value <= 500
            /\ ~ret.out.significant => ret.out.p_value >= 500
            /\ text = "Positive spatial autocorrelation - clustered pattern"
                   <=> (above /\ ret.out.significant)
            /\ text = "Negative spatial autocorrelation - dispersed pattern"
                   <=> (below /\ ret.out.significant)
            /\ text = "Random spatial pattern"
                   <=> (~ret.out.significant \/ (~above /\ ~below))

\* a significant clustered pattern
C23_Witness ==
    /\ MoranReturned /\ ret.out.significant
    /\ ret.out.morans_i > 0
    /\ ret.out.interpretation = "Positive spatial autocorrelation - clustered pattern"

\* a negative Moran's I below its expectation that is not significant
C23_WitnessRandom ==
    /\ MoranReturned /\ ~ret.out.significant
    /\ ret.out.morans_i * (Len(MoranRows) - 1) < -10000
    /\ ret.out.interpretation = "Random spatial pattern"

\* a significant dispersed pattern
C23_WitnessDispersed ==
    /\ MoranReturned /\ ret.out.significant
    /\ ret.out.interpretation = "Negative spatial autocorrelation - dispersed pattern"

(***************************************************************************)
(* The interpolated grid.  Lengths in 1/100 of a degree.                   *)
(***************************************************************************)
\* the rows the interpolation that has just returned was given
InterpolationInput ==
    IF "stations_gdf" \in DOMAIN ret.arg THEN ret.arg.stations_gdf
    ELSE GroupedRows(measurements, ret.arg.parameter, 3)

InterpolationReturned ==
    /\ ret.op = "interpolation" /\ ret.down = {}
    /\ "error" \notin DOMAIN ret.out

\* the grid over Washington State: -124.8 to -116.9 by 45.5 to 49.0
GridOver(step) ==
    {<<-12480 + i * step, 4550 + j * step>> :
        i \in 0..(789 \div step), j \in 0..(349 \div step)}

\* the grid points within max_distance (0.5 degree) of some station
CellsInReach(rows, step) ==
    {cell \in GridOver(step) :
        \E i \in 1..Len(rows) :
            (rows[i].longitude - cell[1]) * (rows[i].longitude - cell[1])
                + (rows[i].latitude - cell[2]) * (rows[i].latitude - cell[2]) <= 2500}

\* C24: a grid cell counts as interpolated iff some station lies within
\* max_distance of it; the other cells are left out of interpolated_points,
\* of the numerator of coverage_percent (valid cells over all cells) and of
\* the statistics, which therefore stay between the smallest and the largest
\* station value
C24_OnlyCellsInReachCount ==
    InterpolationReturned =>
        LET rows == InterpolationInput
            step == ret.arg.grid_resolution
            reach == Cardinality(CellsInReach(rows, step))
            total == Cardinality(GridOver(step))
            least == CHOOSE v \in {rows[i].avg_value : i \in 1..Len(rows)} :
                         \A i \in 1..Len(rows) : v <= rows[i].avg_value
            most == CHOOSE v \in {rows[i].avg_value : i \in 1..Len(rows)} :
                        \A i \in 1..Len(rows) : v >= rows[i].avg_value
        IN  /\ ret.out.grid_info.total_points = total
            /\ ret.out.grid_info.interpolated_points = reach
            /\ ret.out.coverage_percent = (2000 * reach + total) \div (2 * total)
            /\ reach = 0 <=> ret.out.statistics = None
            /\ reach > 0 =>
                   /\ least <= ret.out.statistics.min_value
                   /\ ret.out.statistics.min_value <= ret.out.statistics.mean_value
                   /\ ret.out.statistics.mean_value <= ret.out.statistics.max_value
                   /\ ret.out.statistics.max_value <= most

\* stations far apart and of different values on the finer grid: some cells
\* in reach, most of them out of reach
C24_Witness ==
    /\ InterpolationReturned /\ ret.arg.grid_resolution = 50
    /\ ret.out.grid_info.interpolated_points > 0
    /\ ret.out.grid_info.interpolated_points < ret.out.grid_info.total_points
    /\ ret.out.statistics.min_value < ret.out.statistics.max_value
    /\ ret.out.statistics.min_value > 0

(***************************************************************************)
(* Clusters and noise.                                                     *)
(***************************************************************************)
\* the rows the clustering that has just returned was given
ClusteringInput ==
    IF "stations_gdf" \in DOMAIN ret.arg THEN ret.arg.stations_gdf
    ELSE GroupedRows(measurements, ret.arg.parameter, 5)

ClusteringReturned ==
    /\ ret.op = "clustering" /\ ret.down = {}
    /\ "error" \notin DOMAIN ret.out

\* how often the station is listed in the clusters and among the outliers
TimesListed(out, station_id) ==
    Cardinality({<<c, i>> \in (1..Len(out.cluster_summary)) \X (1..MaxSites + MaxSites) :
                    /\ i <= Len(out.cluster_summary[c].stations)
                    /\ out.cluster_summary[c].stations[i] = station_id})
        + Cardinality({i \in 1..Len(out.outlier_stations) :
                          out.outlier_stations[i].station_id = station_id})

\* C25: in a completed clustering every analysed station is listed exactly
\* once, in one cluster or among the outliers, an outlier with its own
\* average; the station counts of the clusters and the number of outliers
\* add up to stations_analyzed
C25_EveryStationListedOnce ==
    ClusteringReturned =>
        LET rows == ClusteringInput
            out == ret.out
        IN  /\ out.stations_analyzed = Len(rows)
            /\ \A i \in 1..Len(rows) : TimesListed(out, rows[i].station_id) = 1
            /\ \A o \in 1..Len(out.outlier_stations) :
                   \E i \in 1..Len(rows) :
                       /\ rows[i].station_id = out.outlier_stations[o].station_id
                       /\ rows[i].avg_value = out.outlier_stations[o].avg_value
            /\ \A c \in 1..Len(out.cluster_summary) :
                   out.cluster_summary[c].station_count
                       = Len(out.cluster_summary[c].stations)
            /\ out.outliers = Len(out.outlier_stations)
            /\ out.clusters_found = Len(out.cluster_summary)
            /\ SumSeq([c \in 1..Len(out.cluster_summary) |->
                          out.cluster_summary[c].station_count]) + out.outliers
                   = out.stations_analyzed

\* a cluster of three stations found and two stations left as noise
C25_Witness ==
    /\ ClusteringReturned
    /\ ret.out.clusters_found = 1
    /\ ret.out.cluster_summary[1].station_count = 3
    /\ ret.out.outliers = 2
    /\ ret.out.stations_analyzed = 5

(***************************************************************************)
(* The quality flag (SpecQuality).                                         *)
(***************************************************************************)
\* the store with every measurement flagged other than VALID taken out: it
\* differs from m in non-VALID measurements only
ValidOnly(m) ==
    [s \in StationSet |->
        [p \in ParameterSet |->
            SelectSeq(m[s][p], LAMBDA r : r.quality_flag = "VALID")]]

\* the store holds a flagged measurement
HoldsFlagged(m) ==
    \E s \in StationSet, p \in ParameterSet :
        \E i \in 1..Len(m[s][p]) : m[s][p][i].quality_flag # "VALID"

\* C26: measurements flagged other than VALID never influence an output: the
\* result of station, county and statewide scoring and of every spatial
\* analysis of a named parameter is the result the same call gives on the
\* store without its non-VALID measurements.
C26_NonValidNeverInfluence ==
    \E m \in {ValidOnly(measurements)} :
        /\ StationReturned =>
               ret.out = calculate_station_risk_score(m, ret.arg, ret.down = {})
        /\ CountyReturned =>
               ret.out = calculate_county_risk_score(m, ret.arg, ret.down)
        /\ StatewideReturned =>
               ret.out = calculate_statewide_risk_summary(m, ret.down)
        /\ HotspotsReturned /\ ret.arg.parameter # NoParameter =>
               ret.out = detect_pollution_hotspots(m, risk_scores, ret.arg.parameter,
                                                   ret.arg.significance_level,
                                                   ret.down = {})
        /\ ret.op = "clustering" /\ ret.arg.parameter # NoParameter =>
               ret.out = spatial_clustering_analysis(m, ret.arg.parameter, ret.arg.eps,
                                                     ret.arg.min_samples, ret.down = {})
        /\ ret.op = "autocorrelation" =>
               ret.out = spatial_autocorrelation_analysis(m, ret.arg.parameter,
                                                          ret.down = {})
        /\ ret.op = "outliers" =>
               ret.out = detect_spatial_outliers(m, ret.arg.parameter, ret.down = {})
        /\ ret.op = "interpolation" =>
               ret.out = spatial_interpolation(m, ret.arg.parameter,
                                               ret.arg.grid_resolution, ret.down = {})

\* hotspot detection has analysed the four stations of a store in which S1
\* holds a flagged reading of today
C26_Witness ==
    /\ HotspotsReturned
    /\ ret.arg.parameter = "PM2.5 Mass"
    /\ ret.down = {}
    /\ HoldsFlagged(measurements)
    /\ measurements["S1"]["PM2.5 Mass"][1].quality_flag = "SUSPECT"
    /\ "stations_analyzed" \in DOMAIN ret.out
    /\ ret.out.stations_analyzed = 4

\* a county score has been returned over a store with flagged measurements
C26_WitnessCounty ==
    /\ CountyReturned
    /\ ret.down = {}
    /\ HoldsFlagged(measurements)
    /\ ret.out.data_availability = "GOOD"

(***************************************************************************)
(* Scoring while the loader runs (SpecConcurrent).                         *)
(***************************************************************************)
\* a county or statewide call has returned
ScoringReturned == ret.op \in {"county", "statewide"} /\ "instants" \in DOMAIN ret

\* what the call would return from the store m
ScoreOf(m) ==
    IF ret.op = "county" THEN calculate_county_risk_score(m, ret.arg, ret.down)
    ELSE calculate_statewide_risk_summary(m, ret.down)

\* C27: calculate_county_risk_score and calculate_statewide_risk_summary
\* compute over one snapshot of the store: whatever another process inserts
\* while the call runs, the score and breakdown returned are those of the
\* store contents at one single instant of the call.
C27_OneSnapshot ==
    ScoringReturned =>
        \E m \in ret.instants : ret.out = ScoreOf(m)

\* a call during which nothing was inserted returns the score of the store
C27_QuietCallScoresTheStore ==
    ScoringReturned /\ ret.instants = {measurements} => ret.out = ScoreOf(measurements)

\* a county call has returned a score after the loader inserted twice
C27_Witness ==
    /\ ScoringReturned
    /\ ret.op = "county"
    /\ ret.down = {}
    /\ Cardinality(ret.instants) = 3
    /\ ret.out.data_availability = "LIMITED"

(***************************************************************************)
(* The archival writes (SpecWrites).                                       *)
(***************************************************************************)
WriteFailed == ret.op \in {"hotspots", "clustering"} /\ ~ret.saved

\* what the call returns when its write succeeds: the analysis of the store
AnalysisOfStore ==
    IF ret.op = "hotspots"
    THEN detect_pollution_hotspots(measurements, risk_scores, ret.arg.parameter,
                                   ret.arg.significance_level, ret.down = {})
    ELSE spatial_clustering_analysis(measurements, ret.arg.parameter, ret.arg.eps,
                                     ret.arg.min_samples, ret.down = {})

\* C28: when the archival write at the end of detect_pollution_hotspots or
\* spatial_clustering_analysis fails, the call returns the result it returns
\* when the write succeeds, raises nothing, and changes no table.
C28_FailedWriteHarmless ==
    /\ [](WriteFailed => ~DidRaise /\ ret.out = AnalysisOfStore)
    /\ [][ret'.op \in {"hotspots", "clustering"} /\ ~ret'.saved =>
              UNCHANGED <<measurements, risk_scores, pollution_hotspots,
                          spatial_clusters, today, running>>]_vars

\* hotspot detection found a hot spot, its write failed, and the table of
\* hotspots is still empty
C28_Witness ==
    /\ WriteFailed
    /\ ret.op = "hotspots"
    /\ "summary" \in DOMAIN ret.out
    /\ ret.out.summary.hotspots > 0
    /\ pollution_hotspots = EmptyBag

\* clustering found a cluster, its write failed, and spatial_clusters is empty
C28_WitnessClustering ==
    /\ WriteFailed
    /\ ret.op = "clustering"
    /\ "clusters_found" \in DOMAIN ret.out
    /\ ret.out.clusters_found > 0
    /\ spatial_clusters = EmptyBag

\* the station ids of the rows a table gained in a step
GainedStations(before, after) ==
    {row.station_id : row \in BagToSet(after (-) before)}

\* C29: a successful detect_pollution_hotspots whose write succeeds adds one
\* row to the store for every station it computed a z-score and classification
\* for, and a successful spatial_clustering_analysis one row for every station
\* it assigned to a cluster or to the outliers.
C29_OneRowPerStation ==
    [][/\ ret'.op = "hotspots" /\ ret'.saved /\ "summary" \in DOMAIN ret'.out =>
              BagCardinality(pollution_hotspots' (-) pollution_hotspots)
                  = ret'.out.stations_analyzed
       /\ ret'.op = "clustering" /\ ret'.saved /\ "cluster_summary" \in DOMAIN ret'.out =>
              /\ BagCardinality(spatial_clusters' (-) spatial_clusters)
                     = ret'.out.stations_analyzed
              /\ Cardinality(GainedStations(spatial_clusters, spatial_clusters'))
                     = ret'.out.stations_analyzed]_vars

\* the part of C29 the code keeps: every hot spot gets its row, and every
\* station of a clustering run gets one
C29_RowsForHotSpotsAndClusters ==
    [][/\ ret'.op = "hotspots" /\ ret'.saved /\ "summary" \in DOMAIN ret'.out =>
              /\ BagCardinality(pollution_hotspots' (-) pollution_hotspots)
                     = ret'.out.summary.hotspots
              /\ GainedStations(pollution_hotspots, pollution_hotspots')
                     = {ret'.out.hotspot_stations[i].station_id :
                            i \in 1..Len(ret'.out.hotspot_stations)}
       /\ ret'.op = "clustering" /\ ret'.saved /\ "cluster_summary" \in DOMAIN ret'.out =>
              /\ BagCardinality(spatial_clusters' (-) spatial_clusters)
                     = ret'.out.stations_analyzed
              /\ Cardinality(GainedStations(spatial_clusters, spatial_clusters'))
                     = ret'.out.stations_analyzed]_vars

\* a saved run that analysed four stations and found one hot spot
C29_Witness ==
    /\ ret.op = "hotspots"
    /\ ret.saved
    /\ "summary" \in DOMAIN ret.out
    /\ ret.out.stations_analyzed = 4
    /\ ret.out.summary.hotspots = 1
    /\ BagCardinality(pollution_hotspots) = 1

(***************************************************************************)
(* The comprehensive analysis (SpecComprehensive).                         *)
(***************************************************************************)
ComprehensiveReturned == ret.op = "comprehensive"

\* the method's entry in the results says it returned an error
EndedInError(out, method) == "error" \in DOMAIN out[AnalysisKey(method)]

\* C30: comprehensive_spatial_analysis calls hotspot detection, clustering,
\* autocorrelation, outlier detection and interpolation in this order (hotspot
\* detection alone without a parameter); every method called leaves its
\* entry, whatever the methods before it returned, and a method whose own
\* store access works leaves what it returns on its own; methods_used lists
\* the methods that returned no error, in the order of the calls;
\* methods_completed is its length and analysis_success says it is not empty.
C30_MethodsInOrder ==
    ComprehensiveReturned =>
        LET out == ret.out
            named == ret.arg.parameter # NoParameter
            called == IF named THEN Methods ELSE <<"hotspot_detection">>
        IN  /\ ret.attempted = called
            /\ \A i \in 1..Len(Methods) :
                   AnalysisKey(Methods[i]) \in DOMAIN out <=> (named \/ i = 1)
            /\ \A i \in 1..Len(called) :
                   /\ called[i] \in ret.down => EndedInError(out, called[i])
                   /\ called[i] \notin ret.down =>
                          out[AnalysisKey(called[i])]
                              = MethodEntry(MethodResult(called[i], ret.arg.parameter,
                                                         ret.arg.grid_resolution,
                                                         ret.arg.stations_gdf, {}))
            /\ out.methods_used
                   = SelectSeq(called, LAMBDA method : ~EndedInError(out, method))
            /\ out.methods_completed = Len(out.methods_used)
            /\ out.analysis_success <=> Len(out.methods_used) > 0

\* the clustering failed and the three methods after it completed
C30_Witness ==
    /\ ComprehensiveReturned
    /\ ret.down = {"spatial_clustering"}
    /\ ret.out.methods_used = <<"hotspot_detection", "spatial_autocorrelation",
                                "outlier_detection", "spatial_interpolation">>
    /\ ret.out.methods_completed = 4
    /\ ret.out.analysis_success

\* no method completed
C30_WitnessNoneCompleted ==
    /\ ComprehensiveReturned
    /\ ret.arg.parameter # NoParameter
    /\ ret.out.methods_used = <<>>
    /\ ~ret.out.analysis_success

\* without a parameter hotspot detection ran alone and completed
C30_WitnessRiskScores ==
    /\ ComprehensiveReturned
    /\ ret.arg.parameter = NoParameter
    /\ ret.out.methods_used = <<"hotspot_detection">>

====
